---- MODULE Spec2Model ----
(***************************************************************************)
(* Verification model of the relay client core of yukibtc/nostr:           *)
(*   - the AUTH send-lock        (sdk/src/relay/auth_lock.rs)              *)
(*   - the process-wide runtime  (runtime/src/global.rs, sdk/src/runtime.rs)*)
(*   - the timeout future        (runtime/src/time.rs, sdk/src/runtime.rs) *)
(*   - the transport connect    (nostr-transport-tungstenite websocket.rs) *)
(*   - the SOCKS5 exchange      (connect_via_socks, same file)             *)
(*   - the WebSocket adapter     (message conversions, poll_next, same file)*)
(*   - Utf8Bytes                 (nostr-transport bytes/utf8.rs)            *)
(*   - FlatBufferEvent           (nostr-database flatbuffers/mod.rs)        *)
(*   - blocking tasks            (runtime spawn/blocking.rs, tokio.rs)      *)
(*   - the builders              (sdk relay/builder.rs, relay-pool stream.rs,*)
(*                                nwc builder.rs)                           *)
(*   - flatbuffer encode/decode  (nostr-database flatbuffers/mod.rs)        *)
(*   - the two Timeout futures   (runtime time.rs, timer.rs)                *)
(*   - ReceiverStream            (relay-pool stream.rs)                     *)
(* Each subsystem has its own specification; the variables of the other    *)
(* subsystems rest at their initial value.                                 *)
(***************************************************************************)
EXTENDS Integers, Sequences, FiniteSets, TLC

VARIABLES
    \* ---- AuthLock (auth_lock.rs) ----
    total,        \* permits the semaphore was constructed with
    permits,      \* Semaphore: permits currently available
    queue,        \* Semaphore: wait list of tasks; push_front at index 1, oldest is last
    pc,           \* per task: "idle" | "pending" (Acquire future polled, Pending) | "holding"
    op,           \* per task: the method in progress, "none" | "message" | "auth"
    num_permits,  \* per task: permits requested by the current acquire (0 when idle)
    state,        \* per task: waiter node state = permits still needed
    issueOrder,   \* history: tasks with an unfinished acquire, oldest request first
    woken,        \* history: waiters woken by the latest drop, in wake order
    dropped,      \* history: what the latest drop dropped: "none" | "message" | "auth" | "acquire"
    closed,       \* Semaphore: the closed flag, set by Semaphore::close only
    panicked      \* tasks whose expect("semaphore should not be closed") panicked

VARIABLES
    \* ---- process-wide runtime (global.rs, sdk runtime.rs) ----
    RUNTIME,        \* the OnceLock: <<>> (empty) or <<handle>>
    runtime_tokio,  \* build feature "runtime-tokio" of the sdk crate
    calls           \* history: the calls made so far, with arguments and results

VARIABLES
    \* ---- timeout future (time.rs, sdk runtime.rs) ----
    entry,          \* the function called: "timeout" | "maybe_timeout"
    duration,       \* its duration argument: <<>> (None) or <<d>>
    now,            \* the clock, in ticks
    fReady,         \* the wrapped future f has its value and returns Ready when polled
    fValue,         \* the value f completes with
    fState,         \* "unpolled" | "pending" | "completed" | "dropped"
    sleepState,     \* "none" | "created" | "armed" | "done" | "dropped"
    sleepDeadline,  \* the tick at which an armed sleep is over
    result,         \* "Pending" | "Ok" | "Err": what the returned future resolved to
    resultValue,    \* v of Ok(v), 0 otherwise
    polls,          \* history: polls of the returned future
    fPolls,         \* history: polls of f
    sleepPolls      \* history: polls of the sleep

VARIABLES
    \* ---- transport connect (nostr-transport-tungstenite websocket.rs) ----
    transport,      \* TungsteniteWebSocketTransport: [runtime, proxy, proxy_target]
    url,            \* the RelayUrl: [host, port, secure, onion, request]
    rustls,         \* build feature "rustls" of the transport crate
    conn            \* the connect future: position, stream held, history, result

VARIABLES
    \* ---- SOCKS5 exchange (connect_via_socks) ----
    shost,          \* argument host: [parse, bytes]
    sport,          \* argument port (u16)
    inbound,        \* the bytes the proxy side sends before its stream ends
    proxyReply,     \* history: the part of inbound that is the proxy's own replies
    socks           \* the connect_via_socks future: position, bytes written, bytes read

VARIABLES
    \* ---- message conversions (From impls of websocket.rs) ----
    original,       \* a WebSocketMessage
    backend,        \* <<>> or <<its tungstenite::Message>>
    restored        \* <<>> or <<the WebSocketMessage converted back>>

VARIABLES
    \* ---- inbound stream (impl Stream for TransportWebSocket) ----
    wsSource,       \* history: every item of the underlying stream, in order
    underlying,     \* the items the underlying stream has not yielded yet
    yielded,        \* history: the items poll_next returned, in order
    wsEnded         \* poll_next returned Ready(None)

VARIABLES
    \* ---- Utf8Bytes (bytes/utf8.rs) ----
    ubCtor,         \* the constructor called
    ubArg,          \* its argument: the chars of a string, or the bytes of a buffer
    ub,             \* <<>>, or its result: <<"Ok", bytes held>> or <<"Err", <<>> >>
    ubRead          \* <<>>, or <<what a use of the value gave>>

VARIABLES
    \* ---- FlatBufferEvent (nostr-database flatbuffers/mod.rs) ----
    fbLeft,         \* self: a decoded event
    fbRight,        \* other: a decoded event
    fbOut           \* <<>>, or <<what cmp, eq and hash gave for the two>>

VARIABLES
    \* ---- blocking tasks (runtime spawn/blocking.rs, runtime/tokio.rs) ----
    blocking,       \* per call of spawn_blocking_task: closure, phase, join result, output
    shutdown        \* the tokio runtime was shut down

VARIABLES
    \* ---- request and relay builders (relay/builder.rs, stream.rs) ----
    builder,        \* <<>>, or <<the url given to new, the RelayBuilder value>>
    obj,            \* the object a stream request targets: its subscriptions and sent frames
    streamRequest,  \* <<>>, or <<the target given to new, the EventStreamRequest value>>
    nwc,            \* <<>>, or <<the NostrWalletConnectBuilder value>>
    setterCall      \* <<>>, or the last setter called: <<builder, setter, argument>>

VARIABLES
    \* ---- flatbuffer encode and decode (nostr-database flatbuffers/mod.rs) ----
    fbEvent,        \* the Event that is encoded
    fbBuf,          \* <<>>, or <<where the buffer is from, the table in the buffer>>
    fbDec           \* <<>>, or <<what the decoders and the tag iterator gave>>

VARIABLES
    \* ---- the two Timeout futures (runtime time.rs and timer.rs) ----
    tmSleep,        \* when the runtime's sleep starts counting: "poll" or "create"
    tmDuration,     \* the duration given to timeout
    tmNow,          \* the clock; timeout was called at 0
    tmF,            \* the wrapped future: is it ready, and its value
    tm,             \* per implementation: its sleep, its counters and its result
    tmWoken,        \* the task that awaits was woken and is due a poll
    tmPolls         \* polls made so far

VARIABLES
    \* ---- ReceiverStream (nostr-relay-pool stream.rs) ----
    rsBuf,          \* values buffered in the channel
    rsSenders,      \* senders not yet dropped
    rsSent,         \* history: all values sent, in order
    rsGot,          \* history: the values poll_next yielded, in order
    rsEnded         \* poll_next returned Ready(None)

authVars == <<total, permits, queue, pc, op, num_permits, state, issueOrder, woken, dropped,
              closed, panicked>>
runtimeVars == <<RUNTIME, runtime_tokio, calls>>
timeoutVars == <<entry, duration, now, fReady, fValue, fState, sleepState, sleepDeadline,
                 result, resultValue, polls, fPolls, sleepPolls>>

connectVars == <<transport, url, rustls, conn>>
socksVars == <<shost, sport, inbound, proxyReply, socks>>
convVars == <<original, backend, restored>>
adapterVars == <<wsSource, underlying, yielded, wsEnded>>
utf8Vars == <<ubCtor, ubArg, ub, ubRead>>
flatbufferVars == <<fbLeft, fbRight, fbOut>>
blockingVars == <<blocking, shutdown>>
builderVars == <<builder, obj, streamRequest, nwc, setterCall>>
codecVars == <<fbEvent, fbBuf, fbDec>>
timerVars == <<tmSleep, tmDuration, tmNow, tmF, tm, tmWoken, tmPolls>>
receiverVars == <<rsBuf, rsSenders, rsSent, rsGot, rsEnded>>

vars == <<authVars, runtimeVars, timeoutVars, connectVars, socksVars, convVars, adapterVars,
          utf8Vars, flatbufferVars, blockingVars, builderVars, codecVars, timerVars,
          receiverVars>>

NotAuth == <<runtimeVars, timeoutVars, connectVars, socksVars, convVars, adapterVars, utf8Vars,
    flatbufferVars, blockingVars, builderVars,
    codecVars, timerVars, receiverVars>>
NotRuntime == <<authVars, timeoutVars, connectVars, socksVars, convVars, adapterVars, utf8Vars,
    flatbufferVars, blockingVars, builderVars,
    codecVars, timerVars, receiverVars>>
NotTimeout == <<authVars, runtimeVars, connectVars, socksVars, convVars, adapterVars, utf8Vars,
    flatbufferVars, blockingVars, builderVars,
    codecVars, timerVars, receiverVars>>
NotConnect == <<authVars, runtimeVars, timeoutVars, socksVars, convVars, adapterVars, utf8Vars,
    flatbufferVars, blockingVars, builderVars,
    codecVars, timerVars, receiverVars>>
NotSocks == <<authVars, runtimeVars, timeoutVars, connectVars, convVars, adapterVars, utf8Vars,
    flatbufferVars, blockingVars, builderVars,
    codecVars, timerVars, receiverVars>>
NotConv == <<authVars, runtimeVars, timeoutVars, connectVars, socksVars, adapterVars, utf8Vars,
    flatbufferVars, blockingVars, builderVars,
    codecVars, timerVars, receiverVars>>
NotAdapter == <<authVars, runtimeVars, timeoutVars, connectVars, socksVars, convVars, utf8Vars,
    flatbufferVars, blockingVars, builderVars,
    codecVars, timerVars, receiverVars>>
NotUtf8 == <<authVars, runtimeVars, timeoutVars, connectVars, socksVars, convVars, adapterVars,
    flatbufferVars, blockingVars, builderVars,
    codecVars, timerVars, receiverVars>>
NotFlatBuffer == <<authVars, runtimeVars, timeoutVars, connectVars, socksVars, convVars,
    adapterVars, utf8Vars, blockingVars, builderVars,
    codecVars, timerVars, receiverVars>>
NotBlocking == <<authVars, runtimeVars, timeoutVars, connectVars, socksVars, convVars,
    adapterVars, utf8Vars, flatbufferVars, builderVars,
    codecVars, timerVars, receiverVars>>
NotBuilder == <<authVars, runtimeVars, timeoutVars, connectVars, socksVars, convVars,
    adapterVars, utf8Vars, flatbufferVars, blockingVars,
    codecVars, timerVars, receiverVars>>
NotCodec == <<authVars, runtimeVars, timeoutVars, connectVars, socksVars, convVars,
    adapterVars, utf8Vars, flatbufferVars, blockingVars, builderVars,
    timerVars, receiverVars>>
NotTimer == <<authVars, runtimeVars, timeoutVars, connectVars, socksVars, convVars,
    adapterVars, utf8Vars, flatbufferVars, blockingVars, builderVars,
    codecVars, receiverVars>>
NotReceiver == <<authVars, runtimeVars, timeoutVars, connectVars, socksVars, convVars,
    adapterVars, utf8Vars, flatbufferVars, blockingVars, builderVars,
    codecVars, timerVars>>

----------------------------------------------------------------------------
(* Bounds *)
MaxBoundName == 2
MaxItems == 3
MaxChars == 2
MaxBytes == 3
IdLen == 2
MaxCreatedAt == 2
MaxBlocking == 2
MaxTagEntries == 2
NumTasks == 3
MaxTestPermits == 2
NumHandles == 2
MaxCalls == 3
MaxDuration == 2
MaxTime == 3
NumValues == 2
MaxPolls == 3

(* Program constants *)
MAX_READS == 536870911

Tasks == 1..NumTasks

Min(a, b) == IF a <= b THEN a ELSE b

\* Sequence s without its element x
Without(s, x) == SelectSeq(s, LAMBDA y : y # x)

InSeq(s, x) == \E i \in 1..Len(s) : s[i] = x

\* Position of x in s (0 when absent)
Pos(s, x) == IF InSeq(s, x) THEN CHOOSE i \in 1..Len(s) : s[i] = x ELSE 0

----------------------------------------------------------------------------
(* AuthLock *)

\* Mutation of MessagePermits: a message takes two permits
MessagePermitsTwo == 1 + 1

\* Permits taken by acquire_message_permit: Semaphore::acquire()
MessagePermits == 1

\* Mutation of AuthPermits: acquire() in place of acquire_many(MAX_READS)
AuthPermitsOne == MessagePermits

\* Mutation of AuthPermits: the guard takes half of the permits
AuthPermitsHalf == MAX_READS \div 2

\* Permits taken by acquire_auth_guard: Semaphore::acquire_many(MAX_READS)
AuthPermits == MAX_READS

\* Mutation of AddPermitsLocked: the newest waiter (queue.first) is served first
RECURSIVE AddPermitsNewestFirst(_, _, _, _, _)
AddPermitsNewestFirst(rem, p, q, st, wk) ==
    IF rem = 0 THEN [permits |-> p, queue |-> q, state |-> st, wakers |-> wk]
    ELSE IF q = <<>> THEN [permits |-> p + rem, queue |-> q, state |-> st, wakers |-> wk]
    ELSE LET w      == q[1]
             assign == Min(st[w], rem)
             next   == st[w] - assign
         IN  IF next = 0
             THEN AddPermitsNewestFirst(rem - assign, p, Tail(q),
                                        [st EXCEPT ![w] = 0], Append(wk, w))
             ELSE [permits |-> p, queue |-> q, state |-> [st EXCEPT ![w] = next], wakers |-> wk]

\* Semaphore::add_permits_locked: hand rem permits to the waiters, oldest
\* (queue.last) first; a waiter whose node state reaches 0 is popped and
\* woken; what is left when the queue is empty goes back to the semaphore.
RECURSIVE AddPermitsLocked(_, _, _, _, _)
AddPermitsLocked(rem, p, q, st, wk) ==
    IF rem = 0 THEN [permits |-> p, queue |-> q, state |-> st, wakers |-> wk]
    ELSE IF q = <<>> THEN [permits |-> p + rem, queue |-> q, state |-> st, wakers |-> wk]
    ELSE LET w      == q[Len(q)]
             assign == Min(st[w], rem)
             next   == st[w] - assign
         IN  IF next = 0
             THEN AddPermitsLocked(rem - assign, p, SubSeq(q, 1, Len(q) - 1),
                                   [st EXCEPT ![w] = 0], Append(wk, w))
             ELSE [permits |-> p, queue |-> q, state |-> [st EXCEPT ![w] = next], wakers |-> wk]

\* Mutation of FirstPoll: a waiter leaves the available permits in the
\* semaphore, so that later requests can still take them
FirstPollBarging(t, n) ==
    IF permits >= n
    THEN /\ permits' = permits - n
         /\ pc' = [pc EXCEPT ![t] = "holding"]
         /\ state' = [state EXCEPT ![t] = 0]
         /\ UNCHANGED <<queue, issueOrder>>
    ELSE /\ permits' = permits
         /\ state' = [state EXCEPT ![t] = n]
         /\ queue' = <<t>> \o queue
         /\ pc' = [pc EXCEPT ![t] = "pending"]
         /\ issueOrder' = Append(issueOrder, t)

\* Semaphore::poll_acquire, first poll of an Acquire future (queued = false):
\* take n permits when that many are available, otherwise take what is
\* available, keep it in the waiter node and enqueue the node.
FirstPoll(t, n) ==
    IF permits >= n
    THEN /\ permits' = permits - n
         /\ pc' = [pc EXCEPT ![t] = "holding"]
         /\ state' = [state EXCEPT ![t] = 0]
         /\ UNCHANGED <<queue, issueOrder>>
    ELSE /\ permits' = 0
         /\ state' = [state EXCEPT ![t] = n - permits]
         /\ queue' = <<t>> \o queue
         /\ pc' = [pc EXCEPT ![t] = "pending"]
         /\ issueOrder' = Append(issueOrder, t)

\* .expect("semaphore should not be closed") on Err(AcquireError): the acquire
\* of a closed semaphore fails at once and the caller panics
Expect(t) ==
    /\ panicked' = panicked \cup {t}
    /\ UNCHANGED <<permits, queue, pc, op, num_permits, state, issueOrder>>

\* AuthLock::acquire_message_permit, first poll
acquire_message_permit(t) ==
    /\ pc[t] = "idle"
    /\ IF closed
       THEN Expect(t)
       ELSE /\ num_permits' = [num_permits EXCEPT ![t] = MessagePermits]
            /\ op' = [op EXCEPT ![t] = "message"]
            /\ FirstPoll(t, MessagePermits)
            /\ UNCHANGED panicked
    /\ UNCHANGED <<total, woken, dropped, closed>>
    /\ UNCHANGED NotAuth

\* AuthLock::acquire_auth_guard, first poll
acquire_auth_guard(t) ==
    /\ pc[t] = "idle"
    /\ IF closed
       THEN Expect(t)
       ELSE /\ num_permits' = [num_permits EXCEPT ![t] = AuthPermits]
            /\ op' = [op EXCEPT ![t] = "auth"]
            /\ FirstPoll(t, AuthPermits)
            /\ UNCHANGED panicked
    /\ UNCHANGED <<total, woken, dropped, closed>>
    /\ UNCHANGED NotAuth

\* Semaphore::poll_acquire on a later poll of a pending Acquire future
\* (queued = true): needed is the node state; Ready when the node has been
\* assigned everything, otherwise whatever is available is moved to the node.
Repoll(t) ==
    /\ pc[t] = "pending"
    /\ IF closed
       THEN Expect(t)
       ELSE LET needed == state[t]
                acq    == Min(permits, needed)
            IN  /\ permits' = permits - acq
                /\ state' = [state EXCEPT ![t] = needed - acq]
                /\ IF needed - acq = 0
                   THEN /\ pc' = [pc EXCEPT ![t] = "holding"]
                        /\ issueOrder' = Without(issueOrder, t)
                   ELSE UNCHANGED <<pc, issueOrder>>
                /\ UNCHANGED <<queue, op, num_permits, panicked>>
    /\ UNCHANGED <<total, woken, dropped, closed>>
    /\ UNCHANGED NotAuth

\* Mutation of Release: the permits of a dropped permit are not returned
ReleaseLost(t) ==
    /\ pc[t] = "holding"
    /\ pc' = [pc EXCEPT ![t] = "idle"]
    /\ num_permits' = [num_permits EXCEPT ![t] = 0]
    /\ op' = [op EXCEPT ![t] = "none"]
    /\ woken' = <<>>
    /\ dropped' = op[t]
    /\ UNCHANGED <<total, permits, queue, state, issueOrder, closed, panicked>>
    /\ UNCHANGED NotAuth

\* Mutation of Release: dropping a permit also closes the semaphore
ReleaseClosing(t) ==
    /\ pc[t] = "holding"
    /\ LET r == AddPermitsLocked(num_permits[t], permits, queue, state, <<>>)
       IN  /\ permits' = r.permits
           /\ queue' = r.queue
           /\ state' = r.state
           /\ woken' = r.wakers
    /\ pc' = [pc EXCEPT ![t] = "idle"]
    /\ num_permits' = [num_permits EXCEPT ![t] = 0]
    /\ op' = [op EXCEPT ![t] = "none"]
    /\ dropped' = op[t]
    /\ closed' = TRUE
    /\ UNCHANGED <<total, issueOrder, panicked>>
    /\ UNCHANGED NotAuth

\* Drop of a SemaphorePermit: Semaphore::release(num_permits)
Release(t) ==
    /\ pc[t] = "holding"
    /\ LET r == AddPermitsLocked(num_permits[t], permits, queue, state, <<>>)
       IN  /\ permits' = r.permits
           /\ queue' = r.queue
           /\ state' = r.state
           /\ woken' = r.wakers
    /\ pc' = [pc EXCEPT ![t] = "idle"]
    /\ num_permits' = [num_permits EXCEPT ![t] = 0]
    /\ op' = [op EXCEPT ![t] = "none"]
    /\ dropped' = op[t]
    /\ UNCHANGED <<total, issueOrder, closed, panicked>>
    /\ UNCHANGED NotAuth

\* Mutation of Abandon: the node leaves the wait list, but the permits it
\* had been assigned are not handed on
AbandonKeepsPermits(t) ==
    /\ pc[t] = "pending"
    /\ queue' = Without(queue, t)
    /\ state' = [state EXCEPT ![t] = 0]
    /\ woken' = <<>>
    /\ pc' = [pc EXCEPT ![t] = "idle"]
    /\ num_permits' = [num_permits EXCEPT ![t] = 0]
    /\ op' = [op EXCEPT ![t] = "none"]
    /\ dropped' = "acquire"
    /\ issueOrder' = Without(issueOrder, t)
    /\ UNCHANGED <<total, permits, closed, panicked>>
    /\ UNCHANGED NotAuth

\* Drop of a pending Acquire future (the caller gave up, e.g. a timeout
\* fired): the node leaves the wait list and what it had been assigned is
\* handed on.
Abandon(t) ==
    /\ pc[t] = "pending"
    /\ LET q == Without(queue, t)
           acquired == num_permits[t] - state[t]
           r == AddPermitsLocked(acquired, permits, q, [state EXCEPT ![t] = 0], <<>>)
       IN  /\ permits' = r.permits
           /\ queue' = r.queue
           /\ state' = r.state
           /\ woken' = r.wakers
    /\ pc' = [pc EXCEPT ![t] = "idle"]
    /\ num_permits' = [num_permits EXCEPT ![t] = 0]
    /\ op' = [op EXCEPT ![t] = "none"]
    /\ dropped' = "acquire"
    /\ issueOrder' = Without(issueOrder, t)
    /\ UNCHANGED <<total, closed, panicked>>
    /\ UNCHANGED NotAuth

\* AuthLock::new() and the test constructor new_with_permits(p)
AuthInit ==
    /\ total \in {MAX_READS} \cup (1..MaxTestPermits)
    /\ permits = total
    /\ queue = <<>>
    /\ pc = [t \in Tasks |-> "idle"]
    /\ op = [t \in Tasks |-> "none"]
    /\ num_permits = [t \in Tasks |-> 0]
    /\ state = [t \in Tasks |-> 0]
    /\ issueOrder = <<>>
    /\ woken = <<>>
    /\ dropped = "none"
    /\ closed = FALSE
    /\ panicked = {}

AuthNext ==
    \E t \in Tasks :
        \/ acquire_message_permit(t)
        \/ acquire_auth_guard(t)
        \/ Repoll(t)
        \/ Release(t)
        \/ Abandon(t)

----------------------------------------------------------------------------
(* Process-wide runtime *)

Handles == 1..NumHandles

\* The handle get_runtime makes from the current Tokio runtime
TokioCurrent == NumHandles + 1

Call(fn, arg, tokio, ok, ret) ==
    [fn |-> fn, arg |-> arg, tokio |-> tokio, ok |-> ok, ret |-> ret]

\* Mutation of OnceLockSet: a later set replaces the stored value
OnceLockOverwrite(slot, value) ==
    [slot |-> <<value>>, ok |-> slot = <<>>]

\* Mutation of OnceLockSet: the emptiness test and the store are not one
\* step, so that every caller sees the cell empty
OnceLockSetUnsynchronized(slot, value) ==
    [slot |-> IF slot = <<>> THEN <<value>> ELSE slot, ok |-> TRUE]

\* OnceLock::set: stores the value when the cell is empty, and reports
\* whether it did
OnceLockSet(slot, value) ==
    [slot |-> IF slot = <<>> THEN <<value>> ELSE slot, ok |-> slot = <<>>]

\* global::install_runtime
install_runtime(h) ==
    /\ Len(calls) < MaxCalls
    /\ LET r == OnceLockSet(RUNTIME, h)
       IN  /\ RUNTIME' = r.slot
           /\ calls' = Append(calls, Call("install_runtime", <<h>>, FALSE, r.ok, <<>>))
    /\ UNCHANGED runtime_tokio
    /\ UNCHANGED NotRuntime

\* global::runtime
runtime ==
    /\ Len(calls) < MaxCalls
    /\ calls' = Append(calls, Call("runtime", <<>>, FALSE, TRUE, RUNTIME))
    /\ UNCHANGED <<RUNTIME, runtime_tokio>>
    /\ UNCHANGED NotRuntime

\* Mutation of GetRuntime: the process default is preferred to the injected runtime
GetRuntimeDefaultFirst(injected, inTokio) ==
    IF RUNTIME # <<>> THEN RUNTIME
    ELSE IF injected # <<>> THEN injected
    ELSE IF runtime_tokio /\ inTokio THEN <<TokioCurrent>>
    ELSE <<>>

\* sdk get_runtime: the value returned for an injected runtime (an Option)
\* when called inside (inTokio) or outside a Tokio runtime
GetRuntime(injected, inTokio) ==
    IF injected # <<>> THEN injected
    ELSE IF RUNTIME # <<>> THEN RUNTIME
    ELSE IF runtime_tokio /\ inTokio THEN <<TokioCurrent>>
    ELSE <<>>

get_runtime(injected, inTokio) ==
    /\ Len(calls) < MaxCalls
    /\ calls' = Append(calls, Call("get_runtime", injected, inTokio, TRUE,
                                   GetRuntime(injected, inTokio)))
    /\ UNCHANGED <<RUNTIME, runtime_tokio>>
    /\ UNCHANGED NotRuntime

\* The process starts with an empty slot; the feature is fixed by the build
RuntimeInit ==
    /\ RUNTIME = <<>>
    /\ runtime_tokio \in BOOLEAN
    /\ calls = <<>>

RuntimeRest == RuntimeInit /\ runtime_tokio = FALSE

RuntimeNext ==
    \/ \E h \in Handles : install_runtime(h)
    \/ runtime
    \/ \E injected \in {<<>>} \cup {<<h>> : h \in Handles}, inTokio \in BOOLEAN :
          get_runtime(injected, inTokio)

----------------------------------------------------------------------------
(* Timeout future *)

Values == 1..NumValues

\* Mutation of TimeoutPoll: the sleep is never polled
TimeoutPollNoSleep(d) ==
    /\ fPolls' = fPolls + 1
    /\ IF fReady
       THEN /\ result' = "Ok"
            /\ resultValue' = fValue
            /\ fState' = "completed"
            /\ sleepState' = "dropped"
       ELSE /\ fState' = "pending"
            /\ UNCHANGED <<result, resultValue, sleepState>>
    /\ UNCHANGED <<sleepPolls, sleepDeadline>>

\* Timeout::poll: poll f, and only when f is pending poll the sleep. The
\* sleep of the runtime (tokio::time::sleep inside an async block) starts
\* counting at its first poll. A resolved future is dropped by the await,
\* and its fields with it.
TimeoutPoll(d) ==
    /\ fPolls' = fPolls + 1
    /\ IF fReady
       THEN /\ result' = "Ok"
            /\ resultValue' = fValue
            /\ fState' = "completed"
            /\ sleepState' = "dropped"
            /\ UNCHANGED <<sleepPolls, sleepDeadline>>
       ELSE /\ sleepPolls' = sleepPolls + 1
            /\ LET deadline == IF sleepState = "armed" THEN sleepDeadline ELSE now + d
               IN  /\ sleepDeadline' = deadline
                   /\ IF now >= deadline
                      THEN /\ result' = "Err"
                           /\ fState' = "dropped"
                           /\ sleepState' = "done"
                      ELSE /\ result' = "Pending"
                           /\ fState' = "pending"
                           /\ sleepState' = "armed"
                   /\ UNCHANGED resultValue

\* NostrRuntimeTimerExt::timeout: the async block makes the sleep and the
\* Timeout at its first poll and awaits the Timeout
timeout(d) ==
    TimeoutPoll(d)

\* Ok(future.await)
AwaitFuture ==
    /\ fPolls' = fPolls + 1
    /\ IF fReady
       THEN /\ result' = "Ok"
            /\ resultValue' = fValue
            /\ fState' = "completed"
       ELSE /\ fState' = "pending"
            /\ UNCHANGED <<result, resultValue>>
    /\ UNCHANGED <<sleepState, sleepPolls, sleepDeadline>>

\* Mutation of maybe_timeout: no duration is taken as a duration of zero
MaybeTimeoutNoneIsZero(dur) ==
    IF dur # <<>> THEN timeout(dur[1]) ELSE timeout(0)

\* RuntimeWrapper::maybe_timeout
maybe_timeout(dur) ==
    IF dur # <<>> THEN timeout(dur[1]) ELSE AwaitFuture

\* The executor polls the future returned by the call
Poll ==
    /\ result = "Pending"
    /\ polls < MaxPolls
    /\ polls' = polls + 1
    /\ IF entry = "timeout" THEN timeout(duration[1]) ELSE maybe_timeout(duration)
    /\ UNCHANGED <<entry, duration, now, fReady, fValue>>
    /\ UNCHANGED NotTimeout

\* Time passes
Tick ==
    /\ now < MaxTime
    /\ now' = now + 1
    /\ UNCHANGED <<entry, duration, fReady, fValue, fState, sleepState, sleepDeadline,
                   result, resultValue, polls, fPolls, sleepPolls>>
    /\ UNCHANGED NotTimeout

\* What f waits for happens
CompleteF ==
    /\ ~fReady
    /\ fState \in {"unpolled", "pending"}
    /\ fReady' = TRUE
    /\ UNCHANGED <<entry, duration, now, fValue, fState, sleepState, sleepDeadline,
                   result, resultValue, polls, fPolls, sleepPolls>>
    /\ UNCHANGED NotTimeout

\* The state after timeout(d, f) or maybe_timeout(duration, f) returned its
\* future: nothing has been polled
TimeoutInit ==
    /\ entry \in {"timeout", "maybe_timeout"}
    /\ duration \in {<<d>> : d \in 0..MaxDuration}
                        \cup (IF entry = "maybe_timeout" THEN {<<>>} ELSE {})
    /\ now = 0
    /\ fReady \in BOOLEAN
    /\ fValue \in Values
    /\ fState = "unpolled"
    /\ sleepState = "none"
    /\ sleepDeadline = 0
    /\ result = "Pending"
    /\ resultValue = 0
    /\ polls = 0
    /\ fPolls = 0
    /\ sleepPolls = 0

TimeoutRest ==
    /\ TimeoutInit
    /\ entry = "timeout" /\ duration = <<0>> /\ ~fReady /\ fValue = 1

TimeoutNext == Poll \/ Tick \/ CompleteF

----------------------------------------------------------------------------
(* Transport connect *)

\* SocketAddr of the configured SOCKS5 proxy
ProxyAddr == "127.0.0.1:9050"

\* Relay hosts: the text of url.host_str(), what host.parse::<IpAddr>() gives
\* for it, whether ServerName::try_from accepts it, and whether it is an onion
ConnectHosts ==
    { [text |-> "192.0.2.1",     parse |-> "V4",  dns |-> FALSE, onion |-> FALSE],
      [text |-> "2001:db8::1",   parse |-> "V6",  dns |-> FALSE, onion |-> FALSE],
      [text |-> "relay.example", parse |-> "Err", dns |-> TRUE,  onion |-> FALSE],
      [text |-> "abcdef.onion",  parse |-> "Err", dns |-> TRUE,  onion |-> TRUE],
      [text |-> "-bad-.example", parse |-> "Err", dns |-> FALSE, onion |-> FALSE] }

ConnectPorts == {443, 7777}

NoError == [kind |-> "none", msg |-> ""]

\* `return Err(..)` and `?`: the future completes with the error
ConnectFail(c, step, kind, msg) ==
    [c EXCEPT !.pc = "done", !.result = "Err",
              !.error = [kind |-> kind, msg |-> msg], !.failed = step]

\* history: a step of connect is entered
StepStarted(c, step) == [c EXCEPT !.trace = Append(@, step)]

\* Mutation of get_runtime: the process default is taken before the own runtime
TransportGetRuntimeGlobalFirst == IF RUNTIME # <<>> THEN RUNTIME ELSE transport.runtime

\* TungsteniteWebSocketTransport::get_runtime: own runtime, else the process default
TransportGetRuntime == IF transport.runtime # <<>> THEN transport.runtime ELSE RUNTIME

\* RelayUrl::is_onion
is_onion == url.host # <<>> /\ url.host[1].onion

\* Mutation of should_use_proxy: an onion-only proxy takes every relay
ShouldUseProxyAlways == TRUE

should_use_proxy ==
    CASE transport.proxy_target = "All" -> TRUE
      [] transport.proxy_target = "Onion" -> is_onion

\* connect_tcp up to its first await: the tcp_connect call, to the proxy
\* (first statement of connect_via_socks) or to the relay
connect_tcp(c) ==
    LET c1 == StepStarted(c, "tcp_connect") IN
    IF transport.proxy # <<>> /\ should_use_proxy
    THEN [c1 EXCEPT !.pc = "socks_tcp",
                    !.tcp = Append(@, <<c.rt[1], "SocketAddr", transport.proxy[1]>>)]
    ELSE [c1 EXCEPT !.pc = "tcp",
                    !.tcp = Append(@, <<c.rt[1], "HostAndPort",
                                        <<url.host[1].text, url.port[1]>> >>)]

\* connect, after connect_stream returned: build the request, start the handshake
ClientHandshake(c) ==
    LET c1 == StepStarted(c, "into_client_request") IN
    IF ~url.request
    THEN ConnectFail(c1, "into_client_request", "Backend", "invalid request")
    ELSE StepStarted([c1 EXCEPT !.pc = "client_async", !.handed = c.stream],
                     "client_async")

\* Mutation of connect_tls: the host is taken as server name without validation
ConnectTlsUnvalidated(c) ==
    [StepStarted(c, "connect_tls") EXCEPT !.pc = "tls",
                                          !.server_name = <<"DnsName", url.host[1].text>>]

\* connect_tls up to its await: the server name, then the TLS connect is started
connect_tls(c) ==
    LET c1 == StepStarted(c, "connect_tls")
        host == url.host[1]
    IN  IF ~rustls
        THEN ConnectFail(c1, "connect_tls", "Backend",
                         "TLS support requires the rustls feature")
        ELSE IF host.parse # "Err"
        THEN [c1 EXCEPT !.pc = "tls", !.server_name = <<"IpAddress", host.text>>]
        ELSE IF host.dns
        THEN [c1 EXCEPT !.pc = "tls", !.server_name = <<"DnsName", host.text>>]
        ELSE ConnectFail(c1, "connect_tls", "Backend", "invalid dns name")

\* Mutation of ConnectStreamTail: the TCP stream is returned for every scheme
ConnectStreamNoTls(c) == ClientHandshake(c)

\* connect_stream, after connect_tcp returned its stream
ConnectStreamTail(c) ==
    IF url.secure THEN connect_tls(c) ELSE ClientHandshake(c)

ConnectFrame == UNCHANGED <<transport, url, rustls>> /\ UNCHANGED NotConnect

\* connect, up to the first await
connect ==
    /\ conn.pc = "start"
    /\ LET rt == TransportGetRuntime
           c0 == StepStarted(conn, "get_runtime")
           c1 == StepStarted([c0 EXCEPT !.rt = rt], "host_port")
       IN  conn' =
             IF rt = <<>>
             THEN ConnectFail(c0, "get_runtime", "Backend", "no runtime installed")
             ELSE IF url.host = <<>>
             THEN ConnectFail(c1, "host_port", "Backend", "missing relay host")
             ELSE IF url.port = <<>>
             THEN ConnectFail(c1, "host_port", "Backend", "missing relay port")
             ELSE connect_tcp(c1)
    /\ ConnectFrame

\* runtime.tcp_connect(HostAndPort) completes
TcpConnected ==
    /\ conn.pc = "tcp"
    /\ \E ok \in BOOLEAN :
         conn' = IF ok
                 THEN ConnectStreamTail([conn EXCEPT !.stream = <<[via |-> "direct", tls |-> FALSE]>>])
                 ELSE ConnectFail(conn, "tcp_connect", "IO", "tcp connect failed")
    /\ ConnectFrame

\* connect_via_socks: runtime.tcp_connect(SocketAddr(proxy)) completes
SocksTcpConnected ==
    /\ conn.pc = "socks_tcp"
    /\ \E ok \in BOOLEAN :
         conn' = IF ok
                 THEN StepStarted([conn EXCEPT !.pc = "socks"], "socks5")
                 ELSE ConnectFail(conn, "tcp_connect", "IO", "tcp connect failed")
    /\ ConnectFrame

\* connect_via_socks: the exchange with the proxy completes
SocksConnected ==
    /\ conn.pc = "socks"
    /\ \E ok \in BOOLEAN :
         conn' = IF ok
                 THEN ConnectStreamTail([conn EXCEPT !.stream = <<[via |-> "socks", tls |-> FALSE]>>])
                 ELSE ConnectFail(conn, "socks5", "IO", "socks5 exchange failed")
    /\ ConnectFrame

\* connector.connect(server_name, stream) completes
TlsConnected ==
    /\ conn.pc = "tls"
    /\ \E ok \in BOOLEAN :
         conn' = IF ok
                 THEN ClientHandshake([conn EXCEPT !.stream = <<[@[1] EXCEPT !.tls = TRUE]>>])
                 ELSE ConnectFail(conn, "connect_tls", "Backend", "tls connect failed")
    /\ ConnectFrame

\* async_tungstenite::client_async completes
Handshaked ==
    /\ conn.pc = "client_async"
    /\ \E ok \in BOOLEAN :
         conn' = IF ok
                 THEN [conn EXCEPT !.pc = "done", !.result = "Ok"]
                 ELSE ConnectFail(conn, "client_async", "Backend", "handshake failed")
    /\ ConnectFrame

ConnInit ==
    [pc |-> "start", rt |-> <<>>, trace |-> <<>>, tcp |-> <<>>, stream |-> <<>>,
     server_name |-> <<>>, handed |-> <<>>, result |-> "Pending",
     error |-> NoError, failed |-> "none"]

\* A transport as its builder leaves it, and a URL to connect to
ConnectInit ==
    /\ transport \in [runtime : {<<>>} \cup {<<h>> : h \in Handles},
                      proxy : {<<>>, <<ProxyAddr>>},
                      proxy_target : {"All", "Onion"}]
    /\ url \in [host : {<<>>} \cup {<<h>> : h \in ConnectHosts},
                port : {<<>>} \cup {<<p>> : p \in ConnectPorts},
                secure : BOOLEAN,
                request : BOOLEAN]
    /\ rustls \in BOOLEAN
    /\ conn = ConnInit

ConnectRest ==
    /\ ConnectInit
    /\ transport = [runtime |-> <<>>, proxy |-> <<>>, proxy_target |-> "All"]
    /\ url = [host |-> <<>>, port |-> <<>>, secure |-> FALSE, request |-> TRUE]
    /\ rustls = FALSE

ConnectNext ==
    \/ connect
    \/ TcpConnected
    \/ SocksTcpConnected
    \/ SocksConnected
    \/ TlsConnected
    \/ Handshaked

----------------------------------------------------------------------------
(* SOCKS5 exchange: connect_via_socks *)

\* u8::MAX
U8_MAX == 255

Byte == 0..U8_MAX

\* A host name of n bytes
NameOf(n) == [i \in 1..n |-> 97]

\* Hosts given to connect_via_socks: what host.parse::<IpAddr>() gives, and the
\* octets of the address or the bytes of the name
SocksHosts ==
    { [parse |-> "V4",  bytes |-> <<192, 0, 2, 1>>],
      [parse |-> "V6",  bytes |-> <<32, 1, 13, 184, 0, 0, 0, 0, 0, 0, 0, 0, 0, 0, 0, 1>>],
      [parse |-> "Err", bytes |-> <<97, 46, 111, 110, 105, 111, 110>>],
      [parse |-> "Err", bytes |-> NameOf(U8_MAX)],
      [parse |-> "Err", bytes |-> NameOf(U8_MAX + 1)] }

SocksPorts == {80, 443}

\* What the relay sends through the tunnel once it is open
TunnelData == <<170, 187>>

\* Replies of the proxy to the method selection
MethodReplies == {<<5, 0>>, <<5, 255>>, <<4, 0>>}

\* Replies of the proxy to the connect request: header, bound address, bound port
ConnectReplies ==
    { <<5, 0, 0, 1>> \o <<10, 0, 0, 1>> \o <<4, 56>>,
      <<5, 0, 0, 4>> \o [i \in 1..16 |-> 16 + i] \o <<4, 56>>,
      <<5, 1, 0, 1>> \o <<0, 0, 0, 0>> \o <<0, 0>>,
      <<4, 0, 0, 1>> \o <<0, 0, 0, 0>> \o <<0, 0>>,
      <<5, 0, 0, 2>> \o <<0, 0, 0, 0>> \o <<0, 0>> }
    \cup { <<5, 0, 0, 3>> \o <<n>> \o [i \in 1..n |-> 100 + i] \o <<4, 56>> :
             n \in 0..MaxBoundName }

Prefixes(s) == { SubSeq(s, 1, k) : k \in 0..(Len(s) - 1) }

\* Everything the proxy side may send before the stream ends: a complete
\* exchange followed by tunnelled data, or one cut short
InboundStreams ==
    { [bytes |-> m \o r \o TunnelData, reply |-> m \o r] :
        m \in MethodReplies, r \in ConnectReplies }
    \cup { [bytes |-> p, reply |-> p] :
             p \in UNION { Prefixes(<<5, 0>> \o r) : r \in ConnectReplies } }

\* `?` on an io::Error: the error is carried unchanged in TransportError::IO
IoError(msg) == [kind |-> "IO", msg |-> msg]

UnexpectedEof == IoError(<<"unexpected end of file">>)

SocksFail(s, err) == [s EXCEPT !.pc = "done", !.result = "Err", !.error = err]

\* read_exact(buf) of n bytes on the stream
CanRead(n) == Len(inbound) - socks.rd >= n

ReadBytes(n) == SubSeq(inbound, socks.rd + 1, socks.rd + n)

AfterRead(s, call, n) ==
    IF CanRead(n)
    THEN [s EXCEPT !.rd = @ + n, !.last = call, !.eof = FALSE]
    ELSE [SocksFail(s, UnexpectedEof) EXCEPT !.rd = Len(inbound), !.last = call, !.eof = TRUE]

\* Mutation of Greeting: two methods are offered
GreetingTwoMethods == <<5, 2, 0, 2>>

Greeting == <<5, 1, 0>>

\* Mutation of to_be_bytes: little-endian
ToLeBytes(p) == <<p % 256, p \div 256>>

\* u16::to_be_bytes
to_be_bytes(p) == <<p \div 256, p % 256>>

HostTooLong(host) == host.parse = "Err" /\ Len(host.bytes) > U8_MAX

\* address type and address of the request
AddressBytes(host) ==
    CASE host.parse = "V4" -> <<1>> \o host.bytes
      [] host.parse = "V6" -> <<4>> \o host.bytes
      [] host.parse = "Err" -> <<3, Len(host.bytes) % 256>> \o host.bytes

ConnectRequest(host, port) == <<5, 1, 0>> \o AddressBytes(host) \o to_be_bytes(port)

\* Mutation of ReplyAccepted: the status byte is not looked at
ReplyAcceptedAnyStatus(header) == header[1] = 5

ReplyAccepted(header) == ~(header[1] # 5 \/ header[2] # 0)

\* Mutation of BoundAddrLen: every bound address is read as 4 bytes
BoundAddrLenV4(atyp) == 4

\* size of the bound address of the reply, for the fixed-size address types
BoundAddrLen(atyp) ==
    CASE atyp = 1 -> 4
      [] atyp = 4 -> 16

SocksFrame == UNCHANGED <<shost, sport, inbound, proxyReply>> /\ UNCHANGED NotSocks

\* runtime.tcp_connect(SocketAddr(proxy)).await?
SocksTcpConnect ==
    /\ socks.pc = "start"
    /\ \E ok \in BOOLEAN :
         socks' = IF ok
                  THEN [socks EXCEPT !.pc = "greeting", !.last = "tcp_connect"]
                  ELSE [SocksFail(socks, IoError(<<"connection refused">>))
                           EXCEPT !.last = "tcp_connect"]
    /\ SocksFrame

\* stream.write_all(&[0x05, 0x01, 0x00]).await?
WriteGreeting ==
    /\ socks.pc = "greeting"
    /\ \E ok \in BOOLEAN :
         socks' = IF ok
                  THEN [socks EXCEPT !.pc = "method", !.last = "write_greeting",
                                     !.written = @ \o Greeting,
                                     !.writes = Append(@, Greeting)]
                  ELSE [SocksFail(socks, IoError(<<"broken pipe">>))
                           EXCEPT !.last = "write_greeting"]
    /\ SocksFrame

\* read the method selection, check it, build the request
ReadMethod ==
    /\ socks.pc = "method"
    /\ LET s == AfterRead(socks, "read_method", 2)
           response == ReadBytes(2)
       IN  socks' =
             IF s.eof THEN s
             ELSE IF response # <<5, 0>>
             THEN SocksFail(s, IoError(<<"socks5", "proxy does not allow no-auth method">>))
             ELSE IF HostTooLong(shost)
             THEN SocksFail(s, IoError(<<"socks5", "host name too long">>))
             ELSE [s EXCEPT !.pc = "request", !.request = ConnectRequest(shost, sport)]
    /\ SocksFrame

\* stream.write_all(&request).await?
WriteRequest ==
    /\ socks.pc = "request"
    /\ \E ok \in BOOLEAN :
         socks' = IF ok
                  THEN [socks EXCEPT !.pc = "header", !.last = "write_request",
                                     !.written = @ \o socks.request,
                                     !.writes = Append(@, socks.request)]
                  ELSE [SocksFail(socks, IoError(<<"broken pipe">>))
                           EXCEPT !.last = "write_request"]
    /\ SocksFrame

\* read the reply header, check version and status, dispatch on the address type
ReadHeader ==
    /\ socks.pc = "header"
    /\ LET s == AfterRead(socks, "read_header", 4)
           header == ReadBytes(4)
       IN  socks' =
             IF s.eof THEN s
             ELSE IF ~ReplyAccepted(header)
             THEN SocksFail(s, IoError(<<"socks5", "connect failed", header[2]>>))
             ELSE IF header[4] \in {1, 4}
             THEN [s EXCEPT !.pc = "addr", !.need = BoundAddrLen(header[4])]
             ELSE IF header[4] = 3
             THEN [s EXCEPT !.pc = "len"]
             ELSE SocksFail(s, IoError(<<"socks5", "proxy replied with invalid address type">>))
    /\ SocksFrame

\* domain bound address: read its length byte
ReadLen ==
    /\ socks.pc = "len"
    /\ LET s == AfterRead(socks, "read_len", 1)
           len == ReadBytes(1)
       IN  socks' = IF s.eof THEN s ELSE [s EXCEPT !.pc = "addr", !.need = len[1]]
    /\ SocksFrame

\* read the bound address
ReadAddr ==
    /\ socks.pc = "addr"
    /\ LET s == AfterRead(socks, "read_addr", socks.need)
       IN  socks' = IF s.eof THEN s ELSE [s EXCEPT !.pc = "port"]
    /\ SocksFrame

\* read the bound port and return the stream
ReadPort ==
    /\ socks.pc = "port"
    /\ LET s == AfterRead(socks, "read_port", 2)
       IN  socks' = IF s.eof THEN s ELSE [s EXCEPT !.pc = "done", !.result = "Ok"]
    /\ SocksFrame

SocksInit ==
    /\ shost \in SocksHosts
    /\ sport \in SocksPorts
    /\ \E i \in InboundStreams : inbound = i.bytes /\ proxyReply = i.reply
    /\ socks = [pc |-> "start", written |-> <<>>, writes |-> <<>>, rd |-> 0, need |-> 0,
                request |-> <<>>, last |-> "none", eof |-> FALSE,
                result |-> "Pending", error |-> [kind |-> "none", msg |-> <<>>]]

SocksRest ==
    /\ SocksInit
    /\ shost.parse = "V4"
    /\ sport = 80
    /\ inbound = <<>>

SocksNext ==
    \/ SocksTcpConnect
    \/ WriteGreeting
    \/ ReadMethod
    \/ WriteRequest
    \/ ReadHeader
    \/ ReadLen
    \/ ReadAddr
    \/ ReadPort

----------------------------------------------------------------------------
(* WebSocket adapter: message conversions and the inbound stream *)

\* Payloads of Text (UTF-8 bytes), Binary, Ping and Pong messages, and close reasons
Payloads == {<<>>, <<104>>, <<104, 105>>}

\* Close codes (u16) on the WebSocketCloseFrame side
CloseCodes ==
    {0, 999} \cup (1000..1016) \cup {2999, 3000, 3999, 4000, 4999, 5000, 65535}

\* tungstenite's CloseCode variants that stand for one code
NamedCloseCodes ==
    { <<"Normal", 1000>>, <<"Away", 1001>>, <<"Protocol", 1002>>,
      <<"Unsupported", 1003>>, <<"Status", 1005>>, <<"Abnormal", 1006>>,
      <<"Invalid", 1007>>, <<"Policy", 1008>>, <<"Size", 1009>>,
      <<"Extension", 1010>>, <<"Error", 1011>>, <<"Restart", 1012>>,
      <<"Again", 1013>>, <<"Tls", 1015>> }

\* code.into(): u16 -> tungstenite CloseCode
CloseCodeFromU16(code) ==
    IF \E p \in NamedCloseCodes : p[2] = code
    THEN <<(CHOOSE p \in NamedCloseCodes : p[2] = code)[1]>>
    ELSE IF code \in 1016..2999 THEN <<"Reserved", code>>
    ELSE IF code \in 3000..3999 THEN <<"Iana", code>>
    ELSE IF code \in 4000..4999 THEN <<"Library", code>>
    ELSE <<"Bad", code>>

\* code.into(): tungstenite CloseCode -> u16
U16FromCloseCode(cc) ==
    IF Len(cc) = 1
    THEN (CHOOSE p \in NamedCloseCodes : p[1] = cc[1])[2]
    ELSE cc[2]

\* From<WebSocketCloseFrame> for TungsteniteCloseFrame
CloseFrameIntoTungstenite(f) ==
    [code |-> CloseCodeFromU16(f.code), reason |-> f.reason]

\* Mutation of CloseFrameFromTungstenite: the reason is left empty
CloseFrameWithoutReason(f) ==
    [code |-> U16FromCloseCode(f.code), reason |-> <<>>]

\* From<TungsteniteCloseFrame> for WebSocketCloseFrame
CloseFrameFromTungstenite(f) ==
    [code |-> U16FromCloseCode(f.code), reason |-> f.reason]

\* From<WebSocketMessage> for TungsteniteMessage
IntoTungstenite(m) ==
    CASE m.variant = "Text" ->
           [ty |-> "tungstenite", variant |-> "Text", data |-> m.data, frame |-> <<>>]
      [] m.variant = "Binary" ->
           [ty |-> "tungstenite", variant |-> "Binary", data |-> m.data, frame |-> <<>>]
      [] m.variant = "Ping" ->
           [ty |-> "tungstenite", variant |-> "Ping", data |-> m.data, frame |-> <<>>]
      [] m.variant = "Pong" ->
           [ty |-> "tungstenite", variant |-> "Pong", data |-> m.data, frame |-> <<>>]
      [] m.variant = "Close" ->
           [ty |-> "tungstenite", variant |-> "Close", data |-> <<>>,
            frame |-> IF m.frame = <<>> THEN <<>>
                      ELSE <<CloseFrameIntoTungstenite(m.frame[1])>>]

\* From<TungsteniteMessage> for WebSocketMessage (Message::Frame is never read)
FromTungstenite(m) ==
    CASE m.variant = "Text" ->
           [ty |-> "transport", variant |-> "Text", data |-> m.data, frame |-> <<>>]
      [] m.variant = "Binary" ->
           [ty |-> "transport", variant |-> "Binary", data |-> m.data, frame |-> <<>>]
      [] m.variant = "Ping" ->
           [ty |-> "transport", variant |-> "Ping", data |-> m.data, frame |-> <<>>]
      [] m.variant = "Pong" ->
           [ty |-> "transport", variant |-> "Pong", data |-> m.data, frame |-> <<>>]
      [] m.variant = "Close" ->
           [ty |-> "transport", variant |-> "Close", data |-> <<>>,
            frame |-> IF m.frame = <<>> THEN <<>>
                      ELSE <<CloseFrameFromTungstenite(m.frame[1])>>]

\* Every WebSocketMessage over the payloads and close codes above
WebSocketMessages ==
    [ty : {"transport"}, variant : {"Text", "Binary", "Ping", "Pong"},
     data : Payloads, frame : {<<>>}]
    \cup [ty : {"transport"}, variant : {"Close"}, data : {<<>>},
          frame : {<<>>} \cup {<<f>> : f \in [code : CloseCodes, reason : Payloads]}]

ConvFrame == UNCHANGED original /\ UNCHANGED NotConv

\* item.into(), as in start_send
ConvertIntoBackend ==
    /\ backend = <<>>
    /\ backend' = <<IntoTungstenite(original)>>
    /\ UNCHANGED restored
    /\ ConvFrame

\* TungsteniteMessage(message).into(), as in poll_next
ConvertBack ==
    /\ backend # <<>>
    /\ restored = <<>>
    /\ restored' = <<FromTungstenite(backend[1])>>
    /\ UNCHANGED backend
    /\ ConvFrame

ConvInit ==
    /\ original \in WebSocketMessages
    /\ backend = <<>>
    /\ restored = <<>>

ConvRest ==
    /\ ConvInit
    /\ original = [ty |-> "transport", variant |-> "Close", data |-> <<>>, frame |-> <<>>]

ConvNext == ConvertIntoBackend \/ ConvertBack

\* Items the underlying async_tungstenite stream yields
UnderlyingItems ==
    { <<"Ok", IntoTungstenite(m)>> :
        m \in { w \in WebSocketMessages :
                  /\ w.data \in {<<>>, <<104, 105>>}
                  /\ w.frame # <<>> =>
                       w.frame[1] \in [code : {1000, 4000}, reason : {<<104, 105>>}] } }
    \cup { <<"Err", "ConnectionClosed">>, <<"Err", "Protocol">> }

\* Mutation of PollNextItem: pings are answered by the backend and not passed on
PollNextDropsPing(item) ==
    IF item[1] = "Ok" /\ item[2].variant = "Ping" THEN <<>>
    ELSE IF item[1] = "Ok" THEN << <<"Ok", FromTungstenite(item[2])>> >>
    ELSE << <<"Err", [kind |-> "Backend", source |-> item[2]]>> >>

\* poll_next: what is yielded for Ready(Some(item)) of the underlying stream
PollNextItem(item) ==
    IF item[1] = "Ok"
    THEN << <<"Ok", FromTungstenite(item[2])>> >>
    ELSE << <<"Err", [kind |-> "Backend", source |-> item[2]]>> >>

\* Stream::poll_next of TransportWebSocket
poll_next ==
    /\ ~wsEnded
    /\ \E ready \in BOOLEAN :
         IF ~ready
         THEN UNCHANGED <<underlying, yielded, wsEnded>>
         ELSE IF underlying = <<>>
         THEN wsEnded' = TRUE /\ UNCHANGED <<underlying, yielded>>
         ELSE /\ yielded' = yielded \o PollNextItem(Head(underlying))
              /\ underlying' = Tail(underlying)
              /\ UNCHANGED wsEnded
    /\ UNCHANGED wsSource
    /\ UNCHANGED NotAdapter

AdapterInit ==
    /\ wsSource \in UNION { [1..n -> UnderlyingItems] : n \in 0..MaxItems }
    /\ underlying = wsSource
    /\ yielded = <<>>
    /\ wsEnded = FALSE

AdapterRest == AdapterInit /\ wsSource = <<>>

AdapterNext == poll_next

----------------------------------------------------------------------------
(* Utf8Bytes *)

\* chars (Unicode scalar values) a String is made of here: 1 to 4 bytes each
Chars == {0, 65, 127, 128, 233, 2047, 2048, 8364, 65535, 65536, 128512, 1114111}

\* bytes the unchecked byte buffers are made of here
BufBytes == {65, 128, 130, 160, 169, 172, 192, 195, 226, 237, 255}

RECURSIVE SeqsUpTo(_, _)
SeqsUpTo(S, n) ==
    IF n = 0 THEN {<<>>}
    ELSE LET shorter == SeqsUpTo(S, n - 1)
         IN  shorter \cup {Append(s, x) : s \in shorter, x \in S}

\* the UTF-8 bytes of a char, as a String or str stores it
EncodeChar(c) ==
    IF c < 128 THEN <<c>>
    ELSE IF c < 2048 THEN <<192 + (c \div 64), 128 + (c % 64)>>
    ELSE IF c < 65536
    THEN <<224 + (c \div 4096), 128 + ((c \div 64) % 64), 128 + (c % 64)>>
    ELSE <<240 + (c \div 262144), 128 + ((c \div 4096) % 64),
           128 + ((c \div 64) % 64), 128 + (c % 64)>>

\* String::as_bytes / String::into_bytes
RECURSIVE EncodeUtf8(_)
EncodeUtf8(s) == IF s = <<>> THEN <<>> ELSE EncodeChar(Head(s)) \o EncodeUtf8(Tail(s))

\* str::from_utf8(&bytes).is_ok(), from byte i on
RECURSIVE Utf8ValidFrom(_, _)
Utf8ValidFrom(b, i) ==
    LET Has(k, lo, hi) == k <= Len(b) /\ b[k] >= lo /\ b[k] <= hi
        Cont(k) == Has(k, 128, 191)
    IN  IF i > Len(b) THEN TRUE
        ELSE IF b[i] < 128 THEN Utf8ValidFrom(b, i + 1)
        ELSE IF b[i] \in 194..223 THEN Cont(i + 1) /\ Utf8ValidFrom(b, i + 2)
        ELSE IF b[i] \in 224..239
        THEN /\ CASE b[i] = 224 -> Has(i + 1, 160, 191)
                  [] b[i] = 237 -> Has(i + 1, 128, 159)
                  [] OTHER -> Cont(i + 1)
             /\ Cont(i + 2)
             /\ Utf8ValidFrom(b, i + 3)
        ELSE IF b[i] \in 240..244
        THEN /\ CASE b[i] = 240 -> Has(i + 1, 144, 191)
                  [] b[i] = 244 -> Has(i + 1, 128, 143)
                  [] OTHER -> Cont(i + 1)
             /\ Cont(i + 2)
             /\ Cont(i + 3)
             /\ Utf8ValidFrom(b, i + 4)
        ELSE FALSE

\* str::chars of a str with bytes b (valid UTF-8), from byte i on
RECURSIVE CharsFrom(_, _)
CharsFrom(b, i) ==
    IF i > Len(b) THEN <<>>
    ELSE IF b[i] < 128 THEN <<b[i]>> \o CharsFrom(b, i + 1)
    ELSE IF b[i] < 224
    THEN <<(b[i] - 192) * 64 + (b[i + 1] - 128)>> \o CharsFrom(b, i + 2)
    ELSE IF b[i] < 240
    THEN <<(b[i] - 224) * 4096 + (b[i + 1] - 128) * 64 + (b[i + 2] - 128)>>
         \o CharsFrom(b, i + 3)
    ELSE <<(b[i] - 240) * 262144 + (b[i + 1] - 128) * 4096
           + (b[i + 2] - 128) * 64 + (b[i + 3] - 128)>> \o CharsFrom(b, i + 4)

StrCtors == {"from_static", "From<String>", "From<&str>", "From<&String>"}
TryCtors == {"TryFrom<Bytes>", "TryFrom<BytesMut>", "TryFrom<Vec<u8>>"}

\* Mutation of Utf8BytesNew: the TryFrom constructors take the bytes as they are
Utf8BytesNewUnvalidated(ctor, arg) ==
    IF ctor \in StrCtors THEN <<"Ok", EncodeUtf8(arg)>> ELSE <<"Ok", arg>>

\* The constructors of Utf8Bytes: Ok with the bytes held, or Err(Utf8Error)
Utf8BytesNew(ctor, arg) ==
    IF ctor \in StrCtors THEN <<"Ok", EncodeUtf8(arg)>>
    ELSE IF ctor \in TryCtors
    THEN IF Utf8ValidFrom(arg, 1) THEN <<"Ok", arg>> ELSE <<"Err", <<>> >>
    ELSE <<"Ok", arg>>

\* <str as Hash>::hash: what it writes to the hasher
StrHash(b) == b \o <<255>>

\* Mutation of Utf8BytesHash: the derived hash of the Bytes field, which
\* writes the length before the bytes
Utf8BytesHashDerived(b) == <<Len(b)>> \o b

\* <Utf8Bytes as Hash>::hash: self.as_str().hash(state)
Utf8BytesHash(b) == StrHash(b)

\* Mutation of Utf8BytesRead: as_str gives up the last byte
Utf8BytesReadShort(b, how) ==
    [how |-> how, defined |-> TRUE, value |-> SubSeq(b, 1, Len(b) - 1), borrowed |-> <<>>]

\* Using a Utf8Bytes with bytes b: as_str (its chars), Display (the chars
\* written), into Bytes (the bytes), and hashing (what the value and what its
\* Borrow<str> write to the hasher); as_str on bytes that are not UTF-8 is
\* undefined
Utf8BytesRead(b, how) ==
    IF how = "Bytes::from"
    THEN [how |-> how, defined |-> TRUE, value |-> b, borrowed |-> <<>>]
    ELSE IF ~Utf8ValidFrom(b, 1)
    THEN [how |-> how, defined |-> FALSE, value |-> <<>>, borrowed |-> <<>>]
    ELSE IF how = "hash"
    THEN [how |-> how, defined |-> TRUE, value |-> Utf8BytesHash(b), borrowed |-> StrHash(b)]
    ELSE [how |-> how, defined |-> TRUE, value |-> CharsFrom(b, 1), borrowed |-> <<>>]

Utf8Frame == UNCHANGED <<ubCtor, ubArg>> /\ UNCHANGED NotUtf8

Utf8Construct ==
    /\ ub = <<>>
    /\ ub' = Utf8BytesNew(ubCtor, ubArg)
    /\ UNCHANGED ubRead
    /\ Utf8Frame

Utf8Use ==
    /\ ub # <<>> /\ ub[1] = "Ok"
    /\ ubRead = <<>>
    /\ \E how \in {"as_str", "Display", "Bytes::from", "hash"} :
         ubRead' = <<Utf8BytesRead(ub[2], how)>>
    /\ UNCHANGED ub
    /\ Utf8Frame

Utf8Init ==
    /\ ubCtor \in StrCtors \cup TryCtors \cup {"from_bytes_unchecked"}
    /\ ubArg \in IF ubCtor \in StrCtors THEN SeqsUpTo(Chars, MaxChars)
                 ELSE SeqsUpTo(BufBytes, MaxBytes)
    /\ ub = <<>>
    /\ ubRead = <<>>

Utf8Rest == ubCtor = "from_static" /\ ubArg = <<>> /\ ub = <<>> /\ ubRead = <<>>

Utf8Next == Utf8Construct \/ Utf8Use

----------------------------------------------------------------------------
(* FlatBufferEvent *)

\* Bytes of an event id
IdBytes == {0, 1, 255}

\* id: &[u8; 32], shortened to IdLen bytes
EventIds == [1..IdLen -> IdBytes]

\* Decoded events, with the fields the comparisons could read
FlatBufferEvents == [id : EventIds, created_at : 0..MaxCreatedAt, kind : {1, 30023}]

\* Ordering::reverse
Reverse(o) == CASE o = "Less" -> "Greater" [] o = "Greater" -> "Less" [] OTHER -> "Equal"

\* Ord::cmp of two integers (Timestamp, u8, usize)
IntCmp(a, b) == IF a < b THEN "Less" ELSE IF a > b THEN "Greater" ELSE "Equal"

\* Ord::cmp of two byte arrays: the first differing byte decides
RECURSIVE SliceCmpFrom(_, _, _)
SliceCmpFrom(a, b, i) ==
    IF i > Len(a) \/ i > Len(b) THEN IntCmp(Len(a), Len(b))
    ELSE IF a[i] # b[i] THEN IntCmp(a[i], b[i])
    ELSE SliceCmpFrom(a, b, i + 1)

\* cmp without the reverse()
FlatBufferEventCmpAscending(self, other) ==
    IF self.created_at # other.created_at
    THEN IntCmp(self.created_at, other.created_at)
    ELSE SliceCmpFrom(self.id, other.id, 1)

\* impl Ord for FlatBufferEvent
FlatBufferEventCmp(self, other) ==
    IF self.created_at # other.created_at
    THEN Reverse(IntCmp(self.created_at, other.created_at))
    ELSE SliceCmpFrom(self.id, other.id, 1)

\* impl PartialEq for FlatBufferEvent
FlatBufferEventEq(self, other) == self.id = other.id

\* impl Hash for FlatBufferEvent: what self.id.hash(state) writes to the hasher,
\* the length prefix of the array and then its bytes
FlatBufferEventHash(self) == <<Len(self.id)>> \o self.id

\* Two events are compared, tested for equality and hashed
FlatBufferCompare ==
    /\ fbOut = <<>>
    /\ fbOut' = <<[cmp |-> FlatBufferEventCmp(fbLeft, fbRight),
                   eq |-> FlatBufferEventEq(fbLeft, fbRight),
                   hashLeft |-> FlatBufferEventHash(fbLeft),
                   hashRight |-> FlatBufferEventHash(fbRight)]>>
    /\ UNCHANGED <<fbLeft, fbRight>>
    /\ UNCHANGED NotFlatBuffer

FlatBufferInit ==
    /\ fbLeft \in FlatBufferEvents
    /\ fbRight \in FlatBufferEvents
    /\ fbOut = <<>>

FlatBufferRest ==
    /\ fbLeft = [id |-> [i \in 1..IdLen |-> 0], created_at |-> 0, kind |-> 1]
    /\ fbRight = fbLeft
    /\ fbOut = <<>>

FlatBufferNext == FlatBufferCompare

----------------------------------------------------------------------------
(* Blocking tasks: spawn_blocking_task under TokioRuntime *)

BlockingCalls == 1..MaxBlocking

\* TOut of a call
OutTypes == {"u8", "u16"}

\* The closures passed: they return a value of type TOut, or panic
Closures == [kind : {"returns", "panics"}, type : OutTypes, value : Values]

\* Result values: Ok(value of a type), Err(error, outermost wrapper first), and the
\* unwinding of the task that awaits
BlockingOk(t, v) == [kind |-> "Ok", type |-> t, value |-> v, e |-> <<>>]
BlockingErr(e) == [kind |-> "Err", type |-> "", value |-> 0, e |-> e]
Unwind == [kind |-> "Panic", type |-> "", value |-> 0, e |-> <<>>]

\* Box::new(move || Box::new(task()) as BoxedBlockingOutput) run by spawn_blocking:
\* what the JoinHandle gives once the closure ran
JoinAfterRun(closure) ==
    IF closure.kind = "panics" THEN BlockingErr(<<"JoinError::Panic">>)
    ELSE BlockingOk(closure.type, closure.value)

\* The JoinHandle of a task the pool dropped before running it
JoinCancelled == BlockingErr(<<"JoinError::Cancelled">>)

\* .await.unwrap() in place of map_err
SpawnBlockingTaskBoxedUnwrap(join) == IF join.kind = "Ok" THEN join ELSE Unwind

\* TokioRuntime::spawn_blocking_task_boxed: .await.map_err(SpawnBlockingTaskError::new)
SpawnBlockingTaskBoxed(join) ==
    IF join.kind = "Ok" THEN join ELSE BlockingErr(<<"SpawnBlockingTaskError">> \o join.e)

\* exec_and_downcast::<TOut>
exec_and_downcast(boxed, TOut) ==
    IF boxed.kind # "Ok" THEN boxed
    ELSE IF boxed.type = TOut THEN BlockingOk(TOut, boxed.value)
    ELSE BlockingErr(<<"SpawnBlockingTaskError", "output type mismatch">>)

NoCall ==
    [phase |-> "idle", closure |-> <<>>, ran |-> FALSE, join |-> <<>>, out |-> <<>>]

\* spawn_blocking_task(task): builds the future, nothing runs yet
SpawnBlockingTask(i) ==
    /\ blocking[i].phase = "idle"
    /\ \E c \in Closures :
        blocking' = [blocking EXCEPT ![i] = [NoCall EXCEPT !.phase = "created",
                                                           !.closure = <<c>>]]
    /\ UNCHANGED shutdown
    /\ UNCHANGED NotBlocking

\* The future is polled: the first poll hands the closure to the blocking pool, a later
\* poll resolves once the JoinHandle is ready
BlockingPoll(i) ==
    /\ \/ /\ blocking[i].phase = "created"
          /\ blocking' = [blocking EXCEPT ![i].phase = "spawned",
                              ![i].join = IF shutdown THEN <<JoinCancelled>> ELSE <<>>]
       \/ /\ blocking[i].phase = "spawned"
          /\ blocking[i].join # <<>>
          /\ blocking' = [blocking EXCEPT ![i].phase = "resolved",
                              ![i].out = <<exec_and_downcast(
                                              SpawnBlockingTaskBoxed(blocking[i].join[1]),
                                              blocking[i].closure[1].type)>>]
    /\ UNCHANGED shutdown
    /\ UNCHANGED NotBlocking

\* A thread of the blocking pool runs the closure
BlockingRun(i) ==
    /\ blocking[i].phase = "spawned"
    /\ blocking[i].join = <<>>
    /\ blocking' = [blocking EXCEPT ![i].ran = TRUE,
                                    ![i].join = <<JoinAfterRun(blocking[i].closure[1])>>]
    /\ UNCHANGED shutdown
    /\ UNCHANGED NotBlocking

\* The runtime shuts down: closures still queued are dropped
BlockingShutdown ==
    /\ ~shutdown
    /\ shutdown' = TRUE
    /\ blocking' = [i \in BlockingCalls |->
                        IF blocking[i].phase = "spawned" /\ blocking[i].join = <<>>
                        THEN [blocking[i] EXCEPT !.join = <<JoinCancelled>>]
                        ELSE blocking[i]]
    /\ UNCHANGED NotBlocking

BlockingInit ==
    /\ blocking = [i \in BlockingCalls |-> NoCall]
    /\ shutdown = FALSE

BlockingRest == BlockingInit

BlockingNext ==
    \/ \E i \in BlockingCalls : SpawnBlockingTask(i) \/ BlockingPoll(i) \/ BlockingRun(i)
    \/ BlockingShutdown

----------------------------------------------------------------------------
(* Builders: RelayBuilder and EventStreamRequest *)

\* Option<T>
None == <<>>
Some(x) == <<x>>

BuilderUrls == {"wss://relay.damus.io", "wss://nos.lol", "ws://oxtr.onion"}

\* RelayCapabilities::default()
RelayCapabilitiesDefault == [read |-> TRUE, write |-> TRUE]

\* RelayOptions::default()
RelayOptionsDefault == "RelayOptions::default()"

\* A builder that starts with a signer set
RelayBuilderNewWithSigner(relay_url) ==
    [url |-> relay_url,
     runtime |-> None,
     websocket_transport |-> None,
     signer |-> Some("Keys"),
     database |-> "MemoryDatabase::default()",
     admit_policy |-> None,
     capabilities |-> RelayCapabilitiesDefault,
     opts |-> RelayOptionsDefault]

\* RelayBuilder::new
RelayBuilderNew(relay_url) ==
    [url |-> relay_url,
     runtime |-> None,
     websocket_transport |-> None,
     signer |-> None,
     database |-> "MemoryDatabase::default()",
     admit_policy |-> None,
     capabilities |-> RelayCapabilitiesDefault,
     opts |-> RelayOptionsDefault]

\* Duration::from_secs
FromSecs(secs) == [secs |-> secs, nanos |-> 0]

\* Durations handed to timeout()
StreamTimeouts == {FromSecs(s) : s \in 0..MaxDuration} \cup {[secs |-> 0, nanos |-> 1]}

\* What the setters of RelayBuilder are given
BuilderOptions == {RelayOptionsDefault, "RelayOptions::new().reconnect(false)"}

RelayBuilderSetters ==
    {"runtime", "websocket_transport", "signer", "database", "admit_policy",
     "capabilities", "opts"}

RelayBuilderArgs(f) ==
    CASE f = "runtime" -> {"TokioRuntime", "SmolRuntime"}
      [] f = "websocket_transport" -> {"TungsteniteWebSocketTransport"}
      [] f = "signer" -> {"Keys"}
      [] f = "database" -> {"NostrLMDB", "MemoryDatabase::unbounded()"}
      [] f = "admit_policy" -> {"AllowList"}
      [] f = "capabilities" -> {[read |-> TRUE, write |-> FALSE],
                                [read |-> FALSE, write |-> TRUE]}
      [] f = "opts" -> BuilderOptions

\* RelayBuilder::runtime
RelayBuilderRuntime(b, v) == [b EXCEPT !.runtime = Some(v)]

\* RelayBuilder::websocket_transport
RelayBuilderWebsocketTransport(b, v) == [b EXCEPT !.websocket_transport = Some(v)]

\* RelayBuilder::signer
RelayBuilderSigner(b, v) == [b EXCEPT !.signer = Some(v)]

\* A database setter that puts the options back to their default
RelayBuilderDatabaseResetsOpts(b, v) ==
    [b EXCEPT !.database = v, !.opts = RelayOptionsDefault]

\* RelayBuilder::database
RelayBuilderDatabase(b, v) == [b EXCEPT !.database = v]

\* RelayBuilder::admit_policy
RelayBuilderAdmitPolicy(b, v) == [b EXCEPT !.admit_policy = Some(v)]

\* RelayBuilder::capabilities
RelayBuilderCapabilities(b, v) == [b EXCEPT !.capabilities = v]

\* RelayBuilder::opts
RelayBuilderOpts(b, v) == [b EXCEPT !.opts = v]

\* The setter named f called with v
RelayBuilderSet(b, f, v) ==
    CASE f = "runtime" -> RelayBuilderRuntime(b, v)
      [] f = "websocket_transport" -> RelayBuilderWebsocketTransport(b, v)
      [] f = "signer" -> RelayBuilderSigner(b, v)
      [] f = "database" -> RelayBuilderDatabase(b, v)
      [] f = "admit_policy" -> RelayBuilderAdmitPolicy(b, v)
      [] f = "capabilities" -> RelayBuilderCapabilities(b, v)
      [] f = "opts" -> RelayBuilderOpts(b, v)

NwcUris == {"nostr+walletconnect://b889..?relay=wss%3A%2F%2Frelay.example&secret=71a8.."}

\* const DEFAULT_TIMEOUT
DEFAULT_TIMEOUT == FromSecs(60)

\* NostrWalletConnectBuilder::new
NostrWalletConnectBuilderNew(uri) ==
    [uri |-> uri,
     timeout |-> DEFAULT_TIMEOUT,
     monitor |-> None,
     websocket_transport |-> None,
     relay |-> RelayOptionsDefault]

NwcBuilderSetters == {"timeout", "monitor", "relay"}

NwcBuilderArgs(f) ==
    CASE f = "timeout" -> StreamTimeouts
      [] f = "monitor" -> {"Monitor::new(16)", "Monitor::new(4096)"}
      [] f = "relay" -> BuilderOptions

\* NostrWalletConnectBuilder::timeout
NostrWalletConnectBuilderTimeout(b, v) == [b EXCEPT !.timeout = v]

\* NostrWalletConnectBuilder::monitor
NostrWalletConnectBuilderMonitor(b, v) == [b EXCEPT !.monitor = Some(v)]

\* NostrWalletConnectBuilder::relay
NostrWalletConnectBuilderRelay(b, v) == [b EXCEPT !.relay = v]

\* The setter named f called with v
NwcBuilderSet(b, f, v) ==
    CASE f = "timeout" -> NostrWalletConnectBuilderTimeout(b, v)
      [] f = "monitor" -> NostrWalletConnectBuilderMonitor(b, v)
      [] f = "relay" -> NostrWalletConnectBuilderRelay(b, v)

ReqExitPolicies == {"ExitOnEOSE", "WaitForEvents", "Never"}

\* ReqExitPolicy::default()
ReqExitPolicyDefault == "ExitOnEOSE"

\* What new is given as its target: a Filter, a Vec<Filter> or a map from relay to filters
TargetArgs ==
    {[from |-> "Filter", filters |-> <<"f1">>, relay |-> ""],
     [from |-> "Vec<Filter>", filters |-> <<"f1", "f2">>, relay |-> ""],
     [from |-> "HashMap", filters |-> <<"f2">>, relay |-> "wss://nos.lol"]}

\* impl From<..> for EventStreamTarget
EventStreamTargetFrom(arg) ==
    IF arg.from = "HashMap"
    THEN [variant |-> "Targeted", broadcast |-> <<>>,
          targeted |-> [r \in {arg.relay} |-> arg.filters]]
    ELSE [variant |-> "Broadcast", broadcast |-> arg.filters, targeted |-> <<>>]

\* The objects a request can target: what they are subscribed to and what they sent
TargetObjects == [subscriptions : SUBSET {"sub1", "sub2"}, sent : {<<>>, <<"REQ">>}]

\* A new that subscribes at once
EventStreamRequestNewSubscribes(target_obj, arg) ==
    [request |-> [obj |-> "&obj",
                  target |-> EventStreamTargetFrom(arg),
                  timeout |-> FromSecs(60),
                  policy |-> ReqExitPolicyDefault],
     obj |-> [subscriptions |-> target_obj.subscriptions \cup {"stream"},
              sent |-> Append(target_obj.sent, "REQ")]]

\* EventStreamRequest::new: the request built, and the target object after the call
\* (new names no value for preexec)
EventStreamRequestNew(target_obj, arg) ==
    [request |-> [obj |-> "&obj",
                  target |-> EventStreamTargetFrom(arg),
                  timeout |-> FromSecs(60),
                  policy |-> ReqExitPolicyDefault],
     obj |-> target_obj]

\* EventStreamRequest::timeout
EventStreamRequestTimeout(req, d) == [req EXCEPT !.timeout = d]

\* EventStreamRequest::policy
EventStreamRequestPolicy(req, p) == [req EXCEPT !.policy = p]

\* One builder expression is followed at a time: a builder is a value that each call
\* takes and returns, so two expressions share nothing
NoBuilder == builder = <<>> /\ streamRequest = <<>> /\ nwc = <<>>

RelayBuilderCreate ==
    /\ NoBuilder
    /\ \E u \in BuilderUrls : builder' = <<u, RelayBuilderNew(u)>>
    /\ UNCHANGED <<obj, streamRequest, nwc, setterCall>>
    /\ UNCHANGED NotBuilder

\* builder.runtime(..), .websocket_transport(..), .signer(..), .database(..),
\* .admit_policy(..), .capabilities(..) or .opts(..)
RelayBuilderCallSetter ==
    /\ builder # <<>>
    /\ \E f \in RelayBuilderSetters : \E v \in RelayBuilderArgs(f) :
        /\ builder' = <<builder[1], RelayBuilderSet(builder[2], f, v)>>
        /\ setterCall' = <<"RelayBuilder", f>>
    /\ UNCHANGED <<obj, streamRequest, nwc>>
    /\ UNCHANGED NotBuilder

NwcBuilderCreate ==
    /\ NoBuilder
    /\ \E u \in NwcUris : nwc' = <<u, NostrWalletConnectBuilderNew(u)>>
    /\ UNCHANGED <<builder, obj, streamRequest, setterCall>>
    /\ UNCHANGED NotBuilder

\* builder.timeout(..), .monitor(..) or .relay(..)
NwcBuilderCallSetter ==
    /\ nwc # <<>>
    /\ \E f \in NwcBuilderSetters : \E v \in NwcBuilderArgs(f) :
        /\ nwc' = <<nwc[1], NwcBuilderSet(nwc[2], f, v)>>
        /\ setterCall' = <<"NostrWalletConnectBuilder", f>>
    /\ UNCHANGED <<builder, obj, streamRequest>>
    /\ UNCHANGED NotBuilder

StreamRequestCreate ==
    /\ NoBuilder
    /\ \E arg \in TargetArgs :
        LET r == EventStreamRequestNew(obj, arg) IN
        /\ streamRequest' = <<arg, r.request>>
        /\ obj' = r.obj
    /\ UNCHANGED <<builder, nwc, setterCall>>
    /\ UNCHANGED NotBuilder

StreamRequestSetTimeout ==
    /\ streamRequest # <<>>
    /\ \E d \in StreamTimeouts :
        /\ streamRequest' = <<streamRequest[1],
                               EventStreamRequestTimeout(streamRequest[2], d)>>
        /\ setterCall' = <<"EventStreamRequest", "timeout">>
    /\ UNCHANGED <<builder, obj, nwc>>
    /\ UNCHANGED NotBuilder

StreamRequestSetPolicy ==
    /\ streamRequest # <<>>
    /\ \E p \in ReqExitPolicies :
        /\ streamRequest' = <<streamRequest[1],
                               EventStreamRequestPolicy(streamRequest[2], p)>>
        /\ setterCall' = <<"EventStreamRequest", "policy">>
    /\ UNCHANGED <<builder, obj, nwc>>
    /\ UNCHANGED NotBuilder

BuilderInit ==
    /\ builder = <<>>
    /\ obj \in TargetObjects
    /\ streamRequest = <<>>
    /\ nwc = <<>>
    /\ setterCall = <<>>

BuilderRest ==
    /\ builder = <<>>
    /\ obj = [subscriptions |-> {}, sent |-> <<>>]
    /\ streamRequest = <<>>
    /\ nwc = <<>>
    /\ setterCall = <<>>

BuilderNext ==
    \/ RelayBuilderCreate
    \/ StreamRequestCreate
    \/ StreamRequestSetTimeout
    \/ StreamRequestSetPolicy
    \/ RelayBuilderCallSetter
    \/ NwcBuilderCreate
    \/ NwcBuilderCallSetter

----------------------------------------------------------------------------
(* Flatbuffer encode and decode *)

\* Tags of an Event: each a non-empty list of strings
TagValues == {<<"e", "x">>, <<"p">>}

\* Events that are encoded; the arrays of 32 and 64 bytes are shortened
Events ==
    [id : {<<1, 2>>, <<255, 0>>},
     pubkey : {<<3, 4>>},
     created_at : 0..MaxCreatedAt,
     kind : {1, 65535},
     tags : SeqsUpTo(TagValues, MaxTagEntries),
     content : {"", "+"},
     sig : {<<5, 6, 7, 8>>}]

\* Encode with id and pubkey exchanged
FlatBufferEncodeSwapped(e) ==
    [valid |-> TRUE,
     id |-> Some(e.pubkey),
     pubkey |-> Some(e.id),
     created_at |-> e.created_at,
     kind |-> e.kind,
     tags |-> Some([i \in 1..Len(e.tags) |-> Some(e.tags[i])]),
     content |-> Some(e.content),
     sig |-> Some(e.sig)]

\* impl FlatBufferEncode for Event: the table written to the buffer. Every field is
\* present, every tag entry has data, kind is widened to 64 bits
FlatBufferEncode(e) ==
    [valid |-> TRUE,
     id |-> Some(e.id),
     pubkey |-> Some(e.pubkey),
     created_at |-> e.created_at,
     kind |-> e.kind,
     tags |-> Some([i \in 1..Len(e.tags) |-> Some(e.tags[i])]),
     content |-> Some(e.content),
     sig |-> Some(e.sig)]

\* The 64-bit kinds a buffer can store
StoredKinds == {0, 7, 65535, 65536, 65543, 131079}

\* Entries of the tags vector of a buffer: without data, or with a vector of strings
TagEntries == {None} \cup {Some(t) : t \in TagValues \cup {<<>>}}

\* Buffers that encode did not write: any kind, any tag entries, a field left out, or
\* bytes that are no event table
ForeignTables ==
    LET base == {FlatBufferEncode(e) : e \in {x \in Events : x.tags = <<>> /\ x.content = "+"}}
        one == FlatBufferEncode(CHOOSE x \in Events : x.tags = <<>> /\ x.content = "+")
    IN  {[t EXCEPT !.kind = k, !.tags = ts] :
            t \in base, k \in StoredKinds,
            ts \in {None} \cup {Some(x) : x \in SeqsUpTo(TagEntries, MaxTagEntries)}}
        \cup {[one EXCEPT !.id = None], [one EXCEPT !.pubkey = None],
              [one EXCEPT !.content = None], [one EXCEPT !.sig = None],
              [one EXCEPT !.valid = FALSE]}

DecodeOk(v) == [ok |-> TRUE, err |-> "", value |-> <<v>>]
DecodeErr(e) == [ok |-> FALSE, err |-> e, value |-> <<>>]

\* A kind above 16 bits becomes the largest 16-bit kind
KindSaturating(k) == IF k > 65535 THEN 65535 ELSE k

\* ev.kind() as u16
KindAsU16(k) == k % 65536

\* The data vectors of the entries that have data, in order: filter_map(|t| t.data())
RECURSIVE EntriesWithData(_)
EntriesWithData(entries) ==
    IF entries = <<>> THEN <<>>
    ELSE (IF Head(entries) = None THEN <<>> ELSE <<Head(entries)[1]>>)
         \o EntriesWithData(Tail(entries))

\* Tag::parse and CowTag::parse of the event library refuse a tag without strings
TagParseOk(data) == data # <<>>

\* The first field the decoder asks for that the table does not have
FirstMissing(t, fields) ==
    LET missing == {i \in 1..Len(fields) : t[fields[i]] = None}
    IN  IF missing = {} THEN "" ELSE fields[CHOOSE i \in missing : \A j \in missing : i <= j]

\* Event::decode and EventBorrow::decode: root_as_event, the tags parsed, then the
\* other fields
DecodeParsed(t) ==
    IF ~t.valid THEN DecodeErr("FlatBuffer")
    ELSE IF t.tags = None THEN DecodeErr("'tags' field not found")
    ELSE LET datas == EntriesWithData(t.tags[1]) IN
         IF \E i \in 1..Len(datas) : ~TagParseOk(datas[i]) THEN DecodeErr("Tag")
         ELSE IF FirstMissing(t, <<"id", "pubkey", "content", "sig">>) # ""
         THEN DecodeErr(FirstMissing(t, <<"id", "pubkey", "content", "sig">>))
         ELSE DecodeOk([id |-> t.id[1],
                        pubkey |-> t.pubkey[1],
                        created_at |-> t.created_at,
                        kind |-> KindAsU16(t.kind),
                        tags |-> datas,
                        content |-> t.content[1],
                        sig |-> t.sig[1]])

\* impl FlatBufferDecode for Event
EventDecode(t) == DecodeParsed(t)

\* impl FlatBufferDecodeBorrowed for EventBorrow
EventBorrowDecode(t) == DecodeParsed(t)

\* impl FlatBufferDecodeBorrowed for FlatBufferEvent: the tags stay the vector of entries
FlatBufferEventDecode(t) ==
    IF ~t.valid THEN DecodeErr("FlatBuffer")
    ELSE IF FirstMissing(t, <<"id", "pubkey", "tags", "content", "sig">>) # ""
    THEN DecodeErr(FirstMissing(t, <<"id", "pubkey", "tags", "content", "sig">>))
    ELSE DecodeOk([id |-> t.id[1],
                   pubkey |-> t.pubkey[1],
                   created_at |-> t.created_at,
                   kind |-> KindAsU16(t.kind),
                   tags |-> t.tags[1],
                   content |-> t.content[1],
                   sig |-> t.sig[1]])

\* FlatBufferEventTagsIter::next at position pos: the entry's data, which is None for
\* an entry without data as it is past the end; the position moves on
TagsIterNext(entries, pos) ==
    IF pos > Len(entries) THEN [item |-> None, pos |-> pos]
    ELSE [item |-> entries[pos], pos |-> pos + 1]

\* What a for loop, collect or filter_map over iter() sees: the items up to the first
\* None that next returns
RECURSIVE TagsIterCollect(_, _)
TagsIterCollect(entries, pos) ==
    LET n == TagsIterNext(entries, pos) IN
    IF n.item = None THEN <<>>
    ELSE <<n.item[1]>> \o TagsIterCollect(entries, n.pos)

\* The tags that parse: filter_map(|t| t.to_cow_tag())
RECURSIVE ParsedTags(_)
ParsedTags(datas) ==
    IF datas = <<>> THEN <<>>
    ELSE (IF TagParseOk(Head(datas)) THEN <<Head(datas)>> ELSE <<>>)
         \o ParsedTags(Tail(datas))

\* impl From<FlatBufferEvent> for EventBorrow
EventBorrowFrom(value) ==
    [value EXCEPT !.tags = ParsedTags(TagsIterCollect(value.tags, 1))]

\* event.encode(&mut fbb)
CodecEncode ==
    /\ fbBuf = <<>>
    /\ fbEvent # <<>>
    /\ fbBuf' = <<"encode", FlatBufferEncode(fbEvent[1])>>
    /\ UNCHANGED <<fbEvent, fbDec>>
    /\ UNCHANGED NotCodec

\* A buffer comes from the store
CodecLoad ==
    /\ fbBuf = <<>>
    /\ fbEvent = <<>>
    /\ \E t \in ForeignTables : fbBuf' = <<"store", t>>
    /\ UNCHANGED <<fbEvent, fbDec>>
    /\ UNCHANGED NotCodec

\* The buffer is decoded by the three decoders, and the tags of the FlatBufferEvent
\* are walked and converted
CodecDecode ==
    /\ fbBuf # <<>>
    /\ fbDec = <<>>
    /\ LET t == fbBuf[2]
           fb == FlatBufferEventDecode(t)
       IN  fbDec' = <<[event |-> EventDecode(t),
                       borrow |-> EventBorrowDecode(t),
                       fb |-> fb,
                       iter |-> IF fb.ok THEN <<TagsIterCollect(fb.value[1].tags, 1)>>
                                ELSE <<>>,
                       conv |-> IF fb.ok THEN <<EventBorrowFrom(fb.value[1])>> ELSE <<>>]>>
    /\ UNCHANGED <<fbEvent, fbBuf>>
    /\ UNCHANGED NotCodec

CodecInit ==
    /\ fbEvent \in {<<>>} \cup {<<e>> : e \in Events}
    /\ fbBuf = <<>>
    /\ fbDec = <<>>

CodecRest == fbEvent = <<>> /\ fbBuf = <<>> /\ fbDec = <<>>

CodecNext == CodecEncode \/ CodecLoad \/ CodecDecode

----------------------------------------------------------------------------
(* The two Timeout futures: timer.rs and time.rs *)

\* timer.rs makes the sleep in timeout, time.rs in the first poll of its async block
Impls == {"timer.rs", "time.rs"}

\* A sleep that always counts from its creation
SleepDeadlineFromCreate(createdAt, firstPollAt, d) == createdAt + d

\* When a sleep(d) completes. The sleeps of TokioRuntime and of the smol example are
\* async blocks that make their timer at the first poll; a runtime may as well return
\* a timer made in the call of sleep, such as tokio::time::sleep(d) itself
SleepDeadline(createdAt, firstPollAt, d) ==
    IF tmSleep = "create" THEN createdAt + d ELSE firstPollAt + d

\* A poll that looks at the sleep first
TimeoutPollSleepFirst(r) ==
    LET made == IF r.created = <<>> THEN tmNow ELSE r.created[1]
        dl == IF r.deadline # <<>> THEN r.deadline[1]
              ELSE SleepDeadline(made, tmNow, tmDuration)
    IN  IF tmNow >= dl
        THEN [r EXCEPT !.created = <<made>>, !.deadline = <<dl>>,
                       !.sleepPolls = @ + 1,
                       !.result = "Err", !.at = <<tmPolls + 1, tmNow>>]
        ELSE IF tmF.ready
        THEN [r EXCEPT !.created = <<made>>, !.deadline = <<dl>>,
                       !.sleepPolls = @ + 1, !.fPolls = @ + 1,
                       !.result = "Ok", !.value = tmF.value,
                       !.at = <<tmPolls + 1, tmNow>>]
        ELSE [r EXCEPT !.created = <<made>>, !.deadline = <<dl>>,
                       !.sleepPolls = @ + 1, !.fPolls = @ + 1]

\* A poll that leaves the sleep alone
TimeoutPollWithoutSleep(r) ==
    IF tmF.ready
    THEN [r EXCEPT !.fPolls = @ + 1, !.result = "Ok", !.value = tmF.value,
                   !.at = <<tmPolls + 1, tmNow>>]
    ELSE [r EXCEPT !.fPolls = @ + 1]

\* Timeout::poll (the same in both files), after the sleep was made: the wrapped
\* future is polled, and the sleep only when that was Pending
TimeoutPollOf(r) ==
    LET made == IF r.created = <<>> THEN tmNow ELSE r.created[1] IN
    IF tmF.ready
    THEN [r EXCEPT !.created = <<made>>, !.fPolls = @ + 1,
                   !.result = "Ok", !.value = tmF.value,
                   !.at = <<tmPolls + 1, tmNow>>]
    ELSE LET dl == IF r.deadline # <<>> THEN r.deadline[1]
                   ELSE SleepDeadline(made, tmNow, tmDuration)
         IN  IF tmNow >= dl
             THEN [r EXCEPT !.created = <<made>>, !.deadline = <<dl>>,
                            !.fPolls = @ + 1, !.sleepPolls = @ + 1,
                            !.result = "Err", !.at = <<tmPolls + 1, tmNow>>]
             ELSE [r EXCEPT !.created = <<made>>, !.deadline = <<dl>>,
                            !.fPolls = @ + 1, !.sleepPolls = @ + 1]

\* The timer of a polled sleep is set for a time not after t
TimerDue(t) ==
    \E i \in Impls : /\ tm[i].result = "Pending"
                     /\ tm[i].deadline # <<>>
                     /\ tm[i].deadline[1] <= t

\* The executor polls the task, and with it both futures that have not resolved
TimerPoll ==
    /\ tmWoken
    /\ \E i \in Impls : tm[i].result = "Pending"
    /\ tmPolls' = tmPolls + 1
    /\ tm' = [i \in Impls |-> IF tm[i].result = "Pending" THEN TimeoutPollOf(tm[i])
                              ELSE tm[i]]
    /\ tmWoken' = FALSE
    /\ UNCHANGED <<tmSleep, tmDuration, tmNow, tmF>>
    /\ UNCHANGED NotTimer

\* Time passes; a timer that is due wakes the task
TimerTick ==
    /\ \/ tmNow < MaxTime
       \/ \E i \in Impls : /\ tm[i].result = "Pending"
                           /\ tm[i].deadline # <<>>
                           /\ tm[i].deadline[1] > tmNow
    /\ tmNow' = tmNow + 1
    /\ tmWoken' = (tmWoken \/ TimerDue(tmNow + 1))
    /\ UNCHANGED <<tmSleep, tmDuration, tmF, tm, tmPolls>>
    /\ UNCHANGED NotTimer

\* What the wrapped future waits for happens; it wakes the task if it was polled
TimerCompleteF ==
    /\ ~tmF.ready
    /\ tmF' = [tmF EXCEPT !.ready = TRUE]
    /\ tmWoken' = (tmWoken \/ \E i \in Impls : tm[i].result = "Pending" /\ tm[i].fPolls > 0)
    /\ UNCHANGED <<tmSleep, tmDuration, tmNow, tm, tmPolls>>
    /\ UNCHANGED NotTimer

\* The futures as timeout(duration, future) returned them at time 0
NewTimeout(i) ==
    [created |-> IF i = "timer.rs" THEN <<0>> ELSE <<>>,
     deadline |-> <<>>,
     result |-> "Pending",
     value |-> 0,
     fPolls |-> 0,
     sleepPolls |-> 0,
     at |-> <<>>]

TimerInit ==
    /\ tmSleep \in {"poll", "create"}
    /\ tmDuration \in 0..MaxDuration
    /\ tmNow = 0
    /\ tmF \in [ready : BOOLEAN, value : Values]
    /\ tm = [i \in Impls |-> NewTimeout(i)]
    /\ tmWoken = TRUE
    /\ tmPolls = 0

TimerRest ==
    /\ tmSleep = "poll"
    /\ tmDuration = 0
    /\ tmNow = 0
    /\ tmF = [ready |-> FALSE, value |-> 1]
    /\ tm = [i \in Impls |-> NewTimeout(i)]
    /\ tmWoken = TRUE
    /\ tmPolls = 0

TimerNext == TimerPoll \/ TimerTick \/ TimerCompleteF

----------------------------------------------------------------------------
(* ReceiverStream *)

PollSome(v) == [kind |-> "Some", value |-> v]
PollNone == [kind |-> "None", value |-> 0]
PollPending == [kind |-> "Pending", value |-> 0]

\* Receiver::poll_recv of the channel: the oldest buffered value, the end once the
\* buffer is empty and every sender is gone, Pending otherwise
PollRecv(buf, senders) ==
    IF buf # <<>> THEN PollSome(Head(buf))
    ELSE IF senders = 0 THEN PollNone
    ELSE PollPending

\* A stream that reports the end whenever the receiver has nothing to give
ReceiverStreamPollNextEndsWhenEmpty(buf, senders) ==
    IF PollRecv(buf, senders).kind = "Pending" THEN PollNone ELSE PollRecv(buf, senders)

\* Stream::poll_next of ReceiverStream hands the poll to the receiver
ReceiverStreamPollNext(buf, senders) == PollRecv(buf, senders)

\* A sender puts a value into the channel
ReceiverSend ==
    /\ rsSenders > 0
    /\ Len(rsSent) < MaxItems
    /\ \E v \in Values :
        /\ rsBuf' = Append(rsBuf, v)
        /\ rsSent' = Append(rsSent, v)
    /\ UNCHANGED <<rsSenders, rsGot, rsEnded>>
    /\ UNCHANGED NotReceiver

\* A sender handle is cloned
ReceiverCloneSender ==
    /\ rsSenders > 0
    /\ rsSenders < NumHandles
    /\ rsSenders' = rsSenders + 1
    /\ UNCHANGED <<rsBuf, rsSent, rsGot, rsEnded>>
    /\ UNCHANGED NotReceiver

\* A sender handle is dropped
ReceiverDropSender ==
    /\ rsSenders > 0
    /\ rsSenders' = rsSenders - 1
    /\ UNCHANGED <<rsBuf, rsSent, rsGot, rsEnded>>
    /\ UNCHANGED NotReceiver

\* The consumer polls the stream
ReceiverPollNext ==
    /\ ~rsEnded
    /\ LET polled == ReceiverStreamPollNext(rsBuf, rsSenders) IN
        /\ rsBuf' = IF polled.kind = "Some" THEN Tail(rsBuf) ELSE rsBuf
        /\ rsGot' = IF polled.kind = "Some" THEN Append(rsGot, polled.value) ELSE rsGot
        /\ rsEnded' = (polled.kind = "None")
    /\ UNCHANGED <<rsSenders, rsSent>>
    /\ UNCHANGED NotReceiver

ReceiverInit ==
    /\ rsBuf = <<>>
    /\ rsSenders = 1
    /\ rsSent = <<>>
    /\ rsGot = <<>>
    /\ rsEnded = FALSE

ReceiverRest ==
    /\ rsBuf = <<>>
    /\ rsSenders = 1
    /\ rsSent = <<>>
    /\ rsGot = <<>>
    /\ rsEnded = FALSE

ReceiverNext ==
    \/ ReceiverSend
    \/ ReceiverCloneSender
    \/ ReceiverDropSender
    \/ ReceiverPollNext

----------------------------------------------------------------------------
(* Specifications *)

\* A woken task is polled again by the executor
Resume(t) == state[t] = 0 /\ Repoll(t)

\* The lock of a relay before any request: AuthLock::new()
AuthRest == AuthInit /\ total = MAX_READS

\* The transport of a relay that is not connecting and has no traffic
TransportRest == ConnectRest /\ SocksRest /\ ConvRest /\ AdapterRest /\ Utf8Rest

\* No buffer encoded or decoded, no timeout raced, nothing sent to a stream
StoreRest == CodecRest /\ TimerRest /\ ReceiverRest

\* No event compared, no blocking task spawned, no builder made
LibraryRest == FlatBufferRest /\ BlockingRest /\ BuilderRest /\ StoreRest

AuthSpecInit == RuntimeRest /\ TimeoutRest /\ TransportRest /\ LibraryRest /\ AuthInit
RuntimeSpecInit == AuthRest /\ TimeoutRest /\ TransportRest /\ LibraryRest /\ RuntimeInit
TimeoutSpecInit == AuthRest /\ RuntimeRest /\ TransportRest /\ LibraryRest /\ TimeoutInit
SocksSpecInit ==
    /\ AuthRest /\ RuntimeRest /\ TimeoutRest
    /\ ConnectRest /\ ConvRest /\ AdapterRest /\ Utf8Rest
    /\ LibraryRest
    /\ SocksInit
ConvSpecInit ==
    /\ AuthRest /\ RuntimeRest /\ TimeoutRest
    /\ ConnectRest /\ SocksRest /\ AdapterRest /\ Utf8Rest
    /\ LibraryRest
    /\ ConvInit
AdapterSpecInit ==
    /\ AuthRest /\ RuntimeRest /\ TimeoutRest
    /\ ConnectRest /\ SocksRest /\ ConvRest /\ Utf8Rest
    /\ LibraryRest
    /\ AdapterInit
Utf8SpecInit ==
    /\ AuthRest /\ RuntimeRest /\ TimeoutRest
    /\ ConnectRest /\ SocksRest /\ ConvRest /\ AdapterRest
    /\ LibraryRest
    /\ Utf8Init

\* connect reads the process default, which was installed or not before the call
ConnectSpecInit ==
    /\ AuthRest
    /\ TimeoutRest
    /\ SocksRest
    /\ ConvRest
    /\ AdapterRest
    /\ Utf8Rest
    /\ LibraryRest
    /\ RUNTIME \in {<<>>} \cup {<<h>> : h \in Handles}
    /\ runtime_tokio = FALSE
    /\ calls = <<>>
    /\ ConnectInit

AuthSpec == AuthSpecInit /\ [][AuthNext]_vars

\* Every holder eventually drops its permit, and the executor polls woken tasks
AuthFairSpec ==
    /\ AuthSpecInit
    /\ [][AuthNext]_vars
    /\ \A t \in Tasks : WF_vars(Release(t)) /\ WF_vars(Resume(t))

RuntimeSpec == RuntimeSpecInit /\ [][RuntimeNext]_vars

TimeoutSpec == TimeoutSpecInit /\ [][TimeoutNext]_vars

ConnectSpec == ConnectSpecInit /\ [][ConnectNext]_vars

SocksSpec == SocksSpecInit /\ [][SocksNext]_vars

ConvSpec == ConvSpecInit /\ [][ConvNext]_vars

AdapterSpec == AdapterSpecInit /\ [][AdapterNext]_vars

Utf8Spec == Utf8SpecInit /\ [][Utf8Next]_vars

\* The rest of everything outside the library types
CoreRest == AuthRest /\ RuntimeRest /\ TimeoutRest /\ TransportRest

FlatBufferSpecInit ==
    /\ CoreRest /\ BlockingRest /\ BuilderRest /\ StoreRest
    /\ FlatBufferInit
BlockingSpecInit ==
    /\ CoreRest /\ FlatBufferRest /\ BuilderRest /\ StoreRest
    /\ BlockingInit
BuilderSpecInit ==
    /\ CoreRest /\ FlatBufferRest /\ BlockingRest /\ StoreRest
    /\ BuilderInit
CodecSpecInit ==
    /\ CoreRest /\ FlatBufferRest /\ BlockingRest /\ BuilderRest
    /\ TimerRest /\ ReceiverRest
    /\ CodecInit
TimerSpecInit ==
    /\ CoreRest /\ FlatBufferRest /\ BlockingRest /\ BuilderRest
    /\ CodecRest /\ ReceiverRest
    /\ TimerInit
ReceiverSpecInit ==
    /\ CoreRest /\ FlatBufferRest /\ BlockingRest /\ BuilderRest
    /\ CodecRest /\ TimerRest
    /\ ReceiverInit

FlatBufferSpec == FlatBufferSpecInit /\ [][FlatBufferNext]_vars

BlockingSpec == BlockingSpecInit /\ [][BlockingNext]_vars

BuilderSpec == BuilderSpecInit /\ [][BuilderNext]_vars

CodecSpec == CodecSpecInit /\ [][CodecNext]_vars

TimerSpec == TimerSpecInit /\ [][TimerNext]_vars

\* Time passes, and the executor polls a woken task
TimerFairSpec ==
    /\ TimerSpecInit
    /\ [][TimerNext]_vars
    /\ WF_vars(TimerTick)
    /\ WF_vars(TimerPoll)

ReceiverSpec == ReceiverSpecInit /\ [][ReceiverNext]_vars

----------------------------------------------------------------------------
(* AuthLock: properties *)

IsNew == total = MAX_READS
HoldsAuth(t) == pc[t] = "holding" /\ op[t] = "auth"
HoldsMsg(t) == pc[t] = "holding" /\ op[t] = "message"
PendingAuth(t) == pc[t] = "pending" /\ op[t] = "auth"
PendingMsg(t) == pc[t] = "pending" /\ op[t] = "message"

\* t's request was made before u's (both unfinished)
IssuedBefore(t, u) ==
    /\ InSeq(issueOrder, t)
    /\ InSeq(issueOrder, u)
    /\ Pos(issueOrder, t) < Pos(issueOrder, u)

\* The step gives t all the permits its request asks for
Granted(t) ==
    \/ pc[t] = "idle" /\ pc'[t] = "holding"
    \/ pc[t] = "pending" /\ state[t] > 0 /\ state'[t] = 0 /\ pc'[t] # "idle"

\* u waits for permits before and after the step
StillWaiting(u) ==
    /\ pc[u] = "pending" /\ state[u] > 0
    /\ pc'[u] = "pending" /\ state'[u] > 0

\* C1: on a lock made by new(), while an auth guard is held no message
\* permit is held, and no pending message request has been given a permit
\* (so it cannot complete before the guard is dropped).
C1_AuthExcludesMessages ==
    IsNew =>
        \A a \in Tasks : HoldsAuth(a) =>
            \A m \in Tasks : op[m] = "message" =>
                /\ pc[m] # "holding"
                /\ pc[m] = "pending" => state[m] = num_permits[m]

C1_Witness ==
    /\ IsNew
    /\ \E a, m \in Tasks : HoldsAuth(a) /\ PendingMsg(m) /\ state[m] > 0

\* C2: on a lock made by new() at most one auth guard is held, and a second
\* acquire_auth_guard made while a guard is held has not been given all its
\* permits.
C2_AtMostOneAuthGuard ==
    IsNew =>
        /\ Cardinality({t \in Tasks : HoldsAuth(t)}) <= 1
        /\ \A a, b \in Tasks : HoldsAuth(a) /\ PendingAuth(b) => state[b] > 0

C2_Witness ==
    /\ IsNew
    /\ \E a, b \in Tasks : a # b /\ HoldsAuth(a) /\ PendingAuth(b)

\* C3: on a lock made by new(), a pending acquire_auth_guard is not given
\* all its permits while a message permit is held; when no permit is held
\* and no older request is unfinished it has been given all of them, and
\* its next poll completes it.
C3_State ==
    IsNew =>
        \A u \in Tasks : PendingAuth(u) =>
            /\ (\E m \in Tasks : HoldsMsg(m)) => state[u] > 0
            /\ ( /\ \A h \in Tasks : pc[h] # "holding"
                 /\ issueOrder # <<>>
                 /\ issueOrder[1] = u ) => state[u] = 0

C3_Step ==
    IsNew =>
        \A u \in Tasks :
            /\ (op'[u] = "auth" /\ pc[u] # "holding" /\ pc'[u] = "holding")
                  => \A m \in Tasks : ~HoldsMsg(m)
            /\ (PendingAuth(u) /\ state[u] = 0 /\ pc'[u] # pc[u] /\ op'[u] = "auth")
                  => pc'[u] = "holding"

C3_AuthWaitsForMessages == []C3_State /\ [][C3_Step]_vars

C3_Witness ==
    /\ IsNew
    /\ dropped = "message"
    /\ \E u \in Tasks : PendingAuth(u) /\ state[u] = 0 /\ woken = <<u>>

\* C4: on a lock made by new(), no request (message or auth) is granted in
\* a step in which an auth request made before it keeps waiting; and when
\* holders drop their permits and woken tasks are polled, a waiting auth
\* request is acquired unless its caller gives it up.
C4_NoOvertaking ==
    IsNew =>
        \A t, u \in Tasks :
            (t # u /\ Granted(t) /\ StillWaiting(u) /\ op[u] = "auth")
                => IssuedBefore(t, u)

C4_AuthNotStarved ==
    /\ [][C4_NoOvertaking]_vars
    /\ \A u \in Tasks :
          (IsNew /\ PendingAuth(u)) ~> (HoldsAuth(u) \/ pc[u] = "idle")

C4_Witness ==
    /\ IsNew
    /\ \E h, b, m \in Tasks :
          /\ HoldsMsg(h)
          /\ PendingAuth(b) /\ state[b] > 0
          /\ PendingMsg(m) /\ state[m] > 0
          /\ IssuedBefore(b, m)

\* C5: on a lock made by new(), dropping the auth guard gives a permit to
\* every queued message request that has no queued auth request before it,
\* message requests are granted and woken in the order they were made, and
\* when holders drop their permits every message request queued behind a
\* guard completes unless its caller gives it up.
C5_DropStep ==
    IsNew =>
        /\ \A a \in Tasks : (HoldsAuth(a) /\ pc'[a] = "idle") =>
              \A m \in Tasks :
                  (PendingMsg(m) /\ ~\E b \in Tasks : PendingAuth(b) /\ IssuedBefore(b, m))
                      => (state'[m] = 0 /\ InSeq(woken', m))
        /\ \A t, u \in Tasks :
              (t # u /\ Granted(t) /\ op'[t] = "message" /\ StillWaiting(u) /\ op[u] = "message")
                  => IssuedBefore(t, u)
        /\ \A i, j \in 1..Len(woken') :
              (i < j /\ woken' # woken) => IssuedBefore(woken'[i], woken'[j])

C5_QueuedMessagesProceedFifo ==
    /\ [][C5_DropStep]_vars
    /\ \A m \in Tasks :
          (IsNew /\ PendingMsg(m) /\ \E a \in Tasks : HoldsAuth(a))
              ~> (HoldsMsg(m) \/ pc[m] = "idle")

C5_Witness ==
    /\ IsNew
    /\ dropped = "auth"
    /\ Len(woken) >= 2
    /\ \A i \in 1..Len(woken) : PendingMsg(woken[i]) /\ state[woken[i]] = 0

\* C6: on a lock with total permits and no auth request, a message request
\* made while fewer than total permits are out completes at once, a request
\* waits only while all total permits are out, never more than total are
\* held, and dropping a permit gives it to the oldest waiting request.
NoAuth == \A t \in Tasks : op[t] # "auth"
PermitsOut == {t \in Tasks : pc[t] = "holding" \/ (pc[t] = "pending" /\ state[t] = 0)}

C6_State ==
    NoAuth =>
        /\ Cardinality(PermitsOut) <= total
        /\ \A t \in Tasks :
              (PendingMsg(t) /\ state[t] > 0) => Cardinality(PermitsOut) = total

C6_Step ==
    NoAuth =>
        \A t \in Tasks :
            /\ (pc[t] = "idle" /\ op'[t] = "message" /\ Cardinality(PermitsOut) < total)
                  => pc'[t] = "holding"
            /\ (HoldsMsg(t) /\ pc'[t] = "idle" /\ \E w \in Tasks : PendingMsg(w) /\ state[w] > 0)
                  => \E w \in Tasks :
                        /\ PendingMsg(w) /\ state[w] > 0 /\ state'[w] = 0
                        /\ \A x \in Tasks : (PendingMsg(x) /\ state[x] > 0 /\ x # w)
                                                => IssuedBefore(w, x)

C6_MessagePermitsUpToCount == []C6_State /\ [][C6_Step]_vars

C6_Witness ==
    /\ NoAuth
    /\ total <= MaxTestPermits
    /\ dropped = "message"
    /\ Cardinality({t \in Tasks : HoldsMsg(t)}) = total - 1
    /\ \E w \in Tasks : PendingMsg(w) /\ woken = <<w>>

\* C18: no sequence of acquire_message_permit, acquire_auth_guard and drops of
\* their permits, guards and pending acquires closes the semaphore, so the
\* expect on an acquire never panics.
C18_SemaphoreNeverClosed ==
    /\ ~closed
    /\ panicked = {}
    /\ \A t \in Tasks : pc[t] = "holding" => op[t] \in {"message", "auth"}

\* A guard is held after a pending acquire was dropped, with a request waiting
C18_Witness ==
    /\ dropped = "acquire"
    /\ \E t \in Tasks : pc[t] = "holding" /\ op[t] = "auth"
    /\ \E t \in Tasks : pc[t] = "pending"
    /\ ~closed

RECURSIVE SumOver(_, _)
SumOver(S, f) ==
    IF S = {} THEN 0
    ELSE LET x == CHOOSE y \in S : TRUE IN f[x] + SumOver(S \ {x}, f)

\* permits in the hands of the holders of permits and guards
HeldPermits == SumOver({t \in Tasks : pc[t] = "holding"}, num_permits)

\* permits already assigned to requests that are still pending
AssignedPermits ==
    SumOver({t \in Tasks : pc[t] = "pending"},
            [t \in Tasks |-> num_permits[t] - state[t]])

\* C29: dropping a pending acquire_message_permit or acquire_auth_guard future
\* leaves nothing of the request in the lock: its node is out of the wait
\* list and the permits it had been assigned are back in the semaphore or
\* with other waiters; no request waits while permits are available, and
\* with every other permit dropped the lock is as new().
C29_State ==
    /\ \A t \in Tasks : pc[t] = "idle" =>
          /\ ~InSeq(queue, t)
          /\ state[t] = 0
          /\ num_permits[t] = 0
    /\ permits + HeldPermits + AssignedPermits = total
    /\ queue # <<>> => permits = 0
    /\ (\A t \in Tasks : pc[t] = "idle") => (permits = total /\ queue = <<>>)

C29_Step ==
    \A t \in Tasks : (pc[t] = "pending" /\ pc'[t] = "idle") =>
        /\ ~InSeq(queue', t)
        /\ permits' + AssignedPermits' = permits + AssignedPermits
        /\ HeldPermits' = HeldPermits
        /\ \A u \in Tasks \ {t} :
              /\ pc'[u] = pc[u]
              /\ state'[u] <= state[u]
              /\ (pc[u] = "pending" /\ state'[u] > 0) => permits' = 0

C29_AbandonLeavesNoTrace == []C29_State /\ [][C29_Step]_vars

\* An auth request that had collected permits was given up while a message
\* permit was held, and the message request queued behind it was woken
C29_Witness ==
    /\ IsNew
    /\ dropped = "acquire"
    /\ \E m \in Tasks : HoldsMsg(m)
    /\ \E u \in Tasks : PendingMsg(u) /\ state[u] = 0 /\ woken = <<u>>
    /\ permits = MAX_READS - 2

C30_State ==
    IsNew =>
        /\ MAX_READS = 2^29 - 1
        /\ MAX_READS = 536870911
        /\ permits \in 0..MAX_READS
        /\ \A t \in Tasks :
              /\ HoldsMsg(t) => num_permits[t] = 1
              /\ HoldsAuth(t) => num_permits[t] = MAX_READS
        /\ permits + HeldPermits + AssignedPermits = MAX_READS
        /\ (\A t \in Tasks : pc[t] # "pending") => permits + HeldPermits = MAX_READS

C30_Step ==
    IsNew =>
        \A t \in Tasks : (pc[t] = "holding" /\ pc'[t] = "idle") =>
            /\ permits' + AssignedPermits' = permits + AssignedPermits + num_permits[t]
            /\ HeldPermits' = HeldPermits - num_permits[t]

----------------------------------------------------------------------------
(* Process-wide runtime: properties *)

InstallsBefore(i) == {j \in 1..(i - 1) : calls[j].fn = "install_runtime"}

\* The argument of the first install_runtime among the calls before call i
FirstInstalled(i) ==
    IF InstallsBefore(i) = {} THEN <<>>
    ELSE calls[CHOOSE j \in InstallsBefore(i) : \A k \in InstallsBefore(i) : j <= k].arg

\* C7: install_runtime returns true exactly when no install_runtime was
\* called before it, the slot holds the handle of the first install (a later
\* install does not replace it), and runtime() returns None before the
\* first install and the first-installed handle after it.
C7_RuntimeSlotWriteOnce ==
    /\ \A i \in 1..Len(calls) :
          /\ calls[i].fn = "install_runtime" => (calls[i].ok <=> InstallsBefore(i) = {})
          /\ calls[i].fn = "runtime" => calls[i].ret = FirstInstalled(i)
    /\ RUNTIME = FirstInstalled(Len(calls) + 1)

C7_Witness ==
    /\ Len(calls) >= 3
    /\ calls[1].fn = "install_runtime" /\ calls[1].ok
    /\ calls[2].fn = "install_runtime" /\ ~calls[2].ok /\ calls[2].arg # calls[1].arg
    /\ calls[3].fn = "runtime" /\ calls[3].ret = calls[1].arg

\* C8 as stated: get_runtime returns the injected runtime when one is given,
\* otherwise the installed default, otherwise none.
C8_InjectedDefaultNone ==
    \A i \in 1..Len(calls) :
        calls[i].fn = "get_runtime" =>
            calls[i].ret = (IF calls[i].arg # <<>> THEN calls[i].arg ELSE FirstInstalled(i))

\* C8 amended: get_runtime returns the injected runtime when one is given,
\* otherwise the installed default, otherwise, in a build with the
\* runtime-tokio feature and inside a Tokio runtime, a handle of that
\* runtime, otherwise none.
C8_LookupOrder ==
    \A i \in 1..Len(calls) :
        calls[i].fn = "get_runtime" =>
            calls[i].ret =
                (IF calls[i].arg # <<>> THEN calls[i].arg
                 ELSE IF FirstInstalled(i) # <<>> THEN FirstInstalled(i)
                 ELSE IF runtime_tokio /\ calls[i].tokio THEN <<TokioCurrent>>
                 ELSE <<>>)

C8_Witness ==
    /\ Len(calls) >= 3
    /\ calls[1].fn = "get_runtime" /\ calls[1].arg = <<>> /\ calls[1].ret = <<TokioCurrent>>
    /\ calls[2].fn = "install_runtime" /\ calls[2].ok
    /\ calls[3].fn = "get_runtime" /\ calls[3].arg # <<>> /\ calls[3].arg # calls[2].arg
    /\ calls[3].ret = calls[3].arg

\* the install_runtime calls that returned true
Winners == {i \in 1..Len(calls) : calls[i].fn = "install_runtime" /\ calls[i].ok}

\* C28: in whatever order the install_runtime and runtime() calls of several
\* threads take effect, exactly one install_runtime returns true and all
\* others false, and every runtime() that returns a handle returns the handle
\* passed by the call that returned true.
C28_OneInstallWins ==
    /\ (\E i \in 1..Len(calls) : calls[i].fn = "install_runtime") =>
          Cardinality(Winners) = 1
    /\ \A i \in 1..Len(calls) :
          (calls[i].fn = "runtime" /\ calls[i].ret # <<>>) =>
              \E w \in Winners : calls[w].arg = calls[i].ret

\* runtime() saw the winner's handle before a second thread's install failed
C28_Witness ==
    /\ Len(calls) = 3
    /\ calls[1].fn = "install_runtime" /\ calls[1].ok
    /\ calls[2].fn = "runtime" /\ calls[2].ret = calls[1].arg
    /\ calls[3].fn = "install_runtime" /\ ~calls[3].ok /\ calls[3].arg # calls[1].arg

----------------------------------------------------------------------------
(* Timeout future: properties *)

\* The step is a poll of the returned future
IsPoll == polls' = polls + 1

\* A poll of the sleep now returns Ready: d has passed since its first poll
SleepOver(d) == IF sleepState = "armed" THEN now >= sleepDeadline ELSE d = 0

\* The race of f against sleep(d), step by step: a poll that finds f ready
\* resolves to Ok of f's value, one that finds f pending and the sleep over
\* resolves to Err, and after Err f is not polled
RaceStep(d) ==
    /\ (IsPoll /\ fReady) => (result' = "Ok" /\ resultValue' = fValue)
    /\ (IsPoll /\ ~fReady /\ SleepOver(d)) => result' = "Err"
    /\ result = "Err" => fPolls' = fPolls

\* The race of f against sleep(d), its outcome: Ok carries the value f
\* completed with; Err comes no earlier than d, with f dropped before it
\* completed and the sleep completed
RaceState(d) ==
    /\ result = "Ok" => (fState = "completed" /\ resultValue = fValue /\ sleepState # "done")
    /\ result = "Err" => /\ fState = "dropped" /\ ~fReady
                         /\ sleepState = "done" /\ now >= sleepDeadline /\ now >= d

\* C9: timeout(d, f) resolves to Ok(v) at a poll where f is ready with v,
\* and to Err(TimeoutError) at a poll where f is pending and the sleep is
\* over; after Err, f has been dropped and is not polled again.
C9_TimeoutRace ==
    /\ [](entry = "timeout" => RaceState(duration[1]))
    /\ [][entry = "timeout" => RaceStep(duration[1])]_vars

C9_Witness ==
    /\ entry = "timeout"
    /\ duration[1] > 0
    /\ result = "Err"
    /\ fPolls >= 2

\* C10: maybe_timeout(None, f) makes and polls no sleep, never resolves to
\* Err, and resolves to Ok(v) exactly when f completes with v;
\* maybe_timeout(Some(d), f) races f against sleep(d) as timeout(d, f) does.
C10_State ==
    entry = "maybe_timeout" =>
        IF duration = <<>>
        THEN /\ sleepState = "none" /\ sleepPolls = 0
             /\ result # "Err"
             /\ result = "Ok" <=> fState = "completed"
             /\ result = "Ok" => resultValue = fValue
        ELSE RaceState(duration[1])

C10_Step ==
    entry = "maybe_timeout" =>
        IF duration = <<>>
        THEN /\ (IsPoll /\ fReady) => (result' = "Ok" /\ resultValue' = fValue)
             /\ (IsPoll /\ ~fReady) => result' = "Pending"
        ELSE RaceStep(duration[1])

C10_MaybeTimeout == []C10_State /\ [][C10_Step]_vars

C10_Witness ==
    /\ entry = "maybe_timeout"
    /\ duration = <<>>
    /\ result = "Ok"
    /\ fPolls >= 2
    /\ now = MaxTime

----------------------------------------------------------------------------
(* Transport connect: properties *)

Entered(step) == InSeq(conn.trace, step)

\* The step of the connect sequence an entered call belongs to: 1 host and
\* port, 2 TCP connection, 3 TLS, 4 WebSocket handshake (0: runtime lookup)
ClaimStep(s) ==
    CASE s = "get_runtime" -> 0
      [] s = "host_port" -> 1
      [] s \in {"tcp_connect", "socks5"} -> 2
      [] s = "connect_tls" -> 3
      [] s \in {"into_client_request", "client_async"} -> 4

\* C11: connect enters its steps in the order host and port, TCP connection
\* (direct or through the proxy), TLS when the scheme is secure, WebSocket
\* handshake; a failed step ends connect with an error and is the last step
\* entered; a URL without host or port fails before any tcp_connect.
C11_ConnectStepOrder ==
    /\ \A i, j \in 1..Len(conn.trace) :
         i < j => /\ ClaimStep(conn.trace[i]) <= ClaimStep(conn.trace[j])
                  /\ conn.trace[i] # conn.trace[j]
    /\ Entered("tcp_connect") => Entered("host_port")
    /\ Entered("connect_tls") => url.secure /\ Entered("tcp_connect")
    /\ Entered("client_async") =>
         /\ Entered("tcp_connect")
         /\ url.secure => Entered("connect_tls")
    /\ conn.result = "Ok" => Entered("client_async")
    /\ conn.result = "Err" =>
         /\ conn.pc = "done"
         /\ conn.error # NoError
         /\ conn.failed = conn.trace[Len(conn.trace)]
    /\ (conn.pc # "start" /\ (url.host = <<>> \/ url.port = <<>>)) =>
         /\ conn.result = "Err"
         /\ conn.tcp = <<>>
         /\ ~Entered("tcp_connect")

\* TLS failed on a proxied stream: the handshake was never entered
C11_Witness ==
    /\ conn.result = "Err"
    /\ conn.failed = "connect_tls"
    /\ conn.stream # <<>> /\ conn.stream[1].via = "socks"
    /\ conn.trace = <<"get_runtime", "host_port", "tcp_connect", "socks5", "connect_tls">>

\* C35: with no runtime set on the transport and no process default installed, connect
\* fails with an error before any TCP connection is attempted; a runtime set on the
\* transport is the one used, whatever the process default is.
C35_RuntimeChoice ==
    conn.pc # "start" =>
        /\ (transport.runtime = <<>> /\ RUNTIME = <<>>) =>
            /\ conn.result = "Err"
            /\ conn.error = [kind |-> "Backend", msg |-> "no runtime installed"]
            /\ conn.trace = <<"get_runtime">>
            /\ conn.tcp = <<>>
        /\ transport.runtime # <<>> =>
            /\ conn.rt = transport.runtime
            /\ \A i \in 1..Len(conn.tcp) : conn.tcp[i][1] = transport.runtime[1]

\* A TCP connection was made with the transport's runtime while another runtime was
\* the process default
C35_Witness ==
    /\ transport.runtime # <<>>
    /\ RUNTIME # <<>>
    /\ RUNTIME # transport.runtime
    /\ conn.tcp # <<>>
    /\ conn.tcp[1][1] = transport.runtime[1]

ProxyUsed ==
    /\ transport.proxy # <<>>
    /\ \/ transport.proxy_target = "All"
       \/ transport.proxy_target = "Onion" /\ is_onion

\* C12: the proxy is used exactly when one is configured and its target is All,
\* or Onion with an onion URL; then the only TCP connection is to the proxy
\* address, and otherwise the only one is to the relay's host and port.
C12_ProxySelection ==
    /\ ~Entered("tcp_connect") => conn.tcp = <<>>
    /\ Entered("tcp_connect") =>
         /\ Len(conn.tcp) = 1
         /\ IF ProxyUsed
            THEN /\ conn.tcp[1][2] = "SocketAddr"
                 /\ conn.tcp[1][3] = transport.proxy[1]
            ELSE /\ conn.tcp[1][2] = "HostAndPort"
                 /\ conn.tcp[1][3] = <<url.host[1].text, url.port[1]>>
    /\ Entered("socks5") => ProxyUsed
    /\ conn.stream # <<>> => (conn.stream[1].via = "socks" <=> ProxyUsed)

\* An onion-only proxy is configured and a clearnet relay was reached directly
C12_Witness ==
    /\ transport.proxy # <<>>
    /\ transport.proxy_target = "Onion"
    /\ ~is_onion
    /\ conn.result = "Ok"
    /\ conn.tcp[1][2] = "HostAndPort"

\* the server name connect_tls derives from the host
ExpectedServerName ==
    IF url.host[1].parse # "Err"
    THEN <<"IpAddress", url.host[1].text>>
    ELSE <<"DnsName", url.host[1].text>>

\* C17: the stream given to the WebSocket handshake is TLS-wrapped iff the
\* scheme is secure, on direct and proxied connections alike; the TLS server
\* name is the host as IP address when it parses as one, else a valid DNS
\* name; an invalid name gives an error and no connection.
C17_TlsIffSecure ==
    /\ conn.handed # <<>> => (conn.handed[1].tls <=> url.secure)
    /\ (conn.pc = "tls" \/ (conn.stream # <<>> /\ conn.stream[1].tls)) =>
         /\ conn.server_name = ExpectedServerName
         /\ url.host[1].parse = "Err" => url.host[1].dns
    /\ (/\ url.secure /\ url.host # <<>>
        /\ url.host[1].parse = "Err" /\ ~url.host[1].dns) =>
         /\ conn.handed = <<>>
         /\ conn.result # "Ok"
         /\ Entered("connect_tls") => conn.result = "Err"
         /\ (Entered("connect_tls") /\ rustls) => conn.error.msg = "invalid dns name"

\* A secure relay reached through the proxy: TLS over the SOCKS5 stream
C17_Witness ==
    /\ conn.result = "Ok"
    /\ conn.handed # <<>> /\ conn.handed[1].tls /\ conn.handed[1].via = "socks"
    /\ conn.server_name[1] = "DnsName"

----------------------------------------------------------------------------
(* SOCKS5 exchange: properties *)

\* the proxy accepted the no-auth method and the client has read that
MethodAccepted == socks.rd >= 2 /\ SubSeq(inbound, 1, 2) = <<5, 0>>

\* C13: the connect request is 05 01 00, then 01 and 4 address bytes for an
\* IPv4 host, 04 and 16 bytes for an IPv6 host, otherwise 03, one length byte
\* and the host bytes, then the port in 2 bytes big-endian; a host that is no
\* IP literal goes as a domain name; a host of more than 255 bytes is rejected
\* with an error and no request is written.
C13_ConnectRequestFormat ==
    /\ Len(socks.writes) <= 2
    /\ Len(socks.writes) = 2 =>
         LET request == socks.writes[2]
             n == Len(shost.bytes)
         IN  /\ SubSeq(request, 1, 3) = <<5, 1, 0>>
             /\ \A i \in 1..Len(request) : request[i] \in Byte
             /\ shost.parse = "V4" =>
                  /\ Len(request) = 10
                  /\ request[4] = 1
                  /\ SubSeq(request, 5, 8) = shost.bytes
             /\ shost.parse = "V6" =>
                  /\ Len(request) = 22
                  /\ request[4] = 4
                  /\ SubSeq(request, 5, 20) = shost.bytes
             /\ shost.parse = "Err" =>
                  /\ Len(request) = 7 + n
                  /\ request[4] = 3
                  /\ request[5] = n
                  /\ SubSeq(request, 6, 5 + n) = shost.bytes
             /\ request[Len(request) - 1] * 256 + request[Len(request)] = sport
    /\ (shost.parse = "Err" /\ Len(shost.bytes) > 255) =>
         /\ Len(socks.writes) <= 1
         /\ socks.pc # "request"
         /\ MethodAccepted =>
              /\ socks.result = "Err"
              /\ socks.error.msg = <<"socks5", "host name too long">>

\* The longest host name that is still accepted was sent, on port 443
C13_Witness ==
    /\ Len(socks.writes) = 2
    /\ shost.parse = "Err"
    /\ Len(shost.bytes) = U8_MAX
    /\ sport = 443

\* the method selection was read in full
MethodRead == socks.last \notin {"none", "tcp_connect", "write_greeting"} /\ Len(inbound) >= 2

\* C14: the client opens with exactly 05 01 00 and reads exactly 2 bytes;
\* unless they are 05 00 it returns an error and writes nothing further.
C14_Greeting ==
    /\ Len(socks.writes) >= 1 => socks.writes[1] = <<5, 1, 0>>
    /\ socks.last = "write_greeting" /\ socks.result = "Pending" =>
         socks.written = <<5, 1, 0>> /\ socks.rd = 0
    /\ (socks.last = "read_method" /\ ~socks.eof) => socks.rd = 2
    /\ (MethodRead /\ SubSeq(inbound, 1, 2) # <<5, 0>>) =>
         /\ socks.result = "Err"
         /\ socks.rd = 2
         /\ socks.written = <<5, 1, 0>>
    /\ Len(socks.writes) >= 2 => SubSeq(inbound, 1, 2) = <<5, 0>>

\* The proxy demanded authentication (method FF)
C14_Witness ==
    /\ socks.last = "read_method"
    /\ ~socks.eof
    /\ SubSeq(inbound, 1, 2) = <<5, 255>>
    /\ socks.result = "Err"

\* C15: after the request the client consumes exactly the 4 header bytes, the
\* bound address (4 bytes, 16 bytes, or a length byte and that many bytes) and
\* 2 port bytes, so that the next byte of the stream is the first tunnelled one.
C15_ReplyConsumed ==
    /\ (socks.last = "read_header" /\ ~socks.eof) => socks.rd = 6
    /\ socks.result = "Ok" =>
         /\ socks.rd = 2 + 4 + (CASE inbound[6] = 1 -> 4
                                  [] inbound[6] = 4 -> 16
                                  [] inbound[6] = 3 -> 1 + inbound[7]) + 2
         /\ socks.rd = Len(proxyReply)
         /\ SubSeq(inbound, socks.rd + 1, Len(inbound)) = TunnelData

\* A reply with a domain name as bound address was consumed
C15_Witness ==
    /\ socks.result = "Ok"
    /\ inbound[6] = 3
    /\ inbound[7] = MaxBoundName

SocksReads == {"read_method", "read_header", "read_len", "read_addr", "read_port"}

StartsWithSocks5(msg) == Len(msg) > 0 /\ msg[1] = "socks5"

\* C16 as stated: every failure while reading the proxy's replies, a reply cut
\* short included, is a TransportError::IO whose message starts with "socks5".
C16_EveryMismatchSocks5 ==
    (socks.result = "Err" /\ socks.last \in SocksReads) =>
        /\ socks.error.kind = "IO"
        /\ StartsWithSocks5(socks.error.msg)

\* C16: a method reply other than 05 00, a reply with version other than 05 or
\* status other than 00, an unknown address type and an over-long host name
\* each give TransportError::IO with a message starting with "socks5"; a reply
\* cut short gives the I/O error of the read (unexpected end of file), whose
\* message does not start with "socks5"; no stream is returned in any of them.
C16_MismatchErrors ==
    /\ (socks.result = "Err" /\ socks.last \in SocksReads /\ ~socks.eof) =>
         /\ socks.error.kind = "IO"
         /\ StartsWithSocks5(socks.error.msg)
    /\ socks.eof =>
         /\ socks.result = "Err"
         /\ socks.error = UnexpectedEof
         /\ ~StartsWithSocks5(socks.error.msg)
    /\ (MethodRead /\ SubSeq(inbound, 1, 2) # <<5, 0>>) => socks.result = "Err"
    /\ (MethodAccepted /\ Len(shost.bytes) > 255 /\ shost.parse = "Err") =>
         socks.result = "Err"
    /\ (socks.rd >= 6 /\ socks.last \in SocksReads \ {"read_method"}) =>
         /\ (inbound[3] # 5 \/ inbound[4] # 0) => socks.result = "Err"
         /\ inbound[6] \notin {1, 3, 4} => socks.result = "Err"
    /\ socks.result = "Ok" =>
         /\ SubSeq(inbound, 1, 2) = <<5, 0>>
         /\ inbound[3] = 5 /\ inbound[4] = 0
         /\ inbound[6] \in {1, 3, 4}
         /\ Len(proxyReply) <= Len(inbound) - Len(TunnelData)

\* The proxy's reply ended inside the bound address
C16_Witness ==
    /\ socks.result = "Err"
    /\ socks.eof
    /\ socks.last = "read_addr"
    /\ socks.error.msg = <<"unexpected end of file">>

----------------------------------------------------------------------------
(* FlatBufferEvent: properties *)

\* a is before b in lexicographic order: at the first place they differ a is smaller
LexBefore(a, b) ==
    \E k \in 1..Len(a) : a[k] < b[k] /\ \A j \in 1..(k - 1) : a[j] = b[j]

\* C24: FlatBufferEvent is ordered by created_at descending, then id ascending: the
\* event with the larger created_at sorts first, events with equal created_at sort by
\* lexicographic id, and equality and hash depend on the id only.
C24_OrderEqHash ==
    fbOut # <<>> =>
        LET r == fbOut[1] IN
        /\ fbLeft.created_at > fbRight.created_at => r.cmp = "Less"
        /\ fbLeft.created_at < fbRight.created_at => r.cmp = "Greater"
        /\ fbLeft.created_at = fbRight.created_at =>
            /\ LexBefore(fbLeft.id, fbRight.id) => r.cmp = "Less"
            /\ LexBefore(fbRight.id, fbLeft.id) => r.cmp = "Greater"
            /\ fbLeft.id = fbRight.id => r.cmp = "Equal"
        /\ r.eq = (fbLeft.id = fbRight.id)
        /\ (r.hashLeft = r.hashRight) = (fbLeft.id = fbRight.id)

\* A newer event with the larger id was compared with an older one of another kind
C24_Witness ==
    /\ fbOut # <<>>
    /\ fbLeft.created_at > fbRight.created_at
    /\ LexBefore(fbRight.id, fbLeft.id)
    /\ fbLeft.kind # fbRight.kind
    /\ fbOut[1].cmp = "Less"
    /\ ~fbOut[1].eq

\* C38: Eq and Ord of FlatBufferEvent agree: a == b holds exactly when a.cmp(b) is
\* Equal.
C38_EqOrdAgree ==
    fbOut # <<>> => (fbOut[1].eq = (fbOut[1].cmp = "Equal"))

----------------------------------------------------------------------------
(* Blocking tasks: properties *)

\* C25: spawn_blocking_task(closure) resolves to Ok(v) with v the value the closure
\* returned; under TokioRuntime a closure that panics makes the future resolve to
\* Err(SpawnBlockingTaskError), and the task that awaits does not unwind.
C25_BlockingResult ==
    \A i \in BlockingCalls :
        blocking[i].phase = "resolved" =>
            LET c == blocking[i].closure[1]
                r == blocking[i].out[1]
            IN  /\ r.kind # "Panic"
                /\ blocking[i].ran /\ c.kind = "returns" =>
                    r.kind = "Ok" /\ r.type = c.type /\ r.value = c.value
                /\ blocking[i].ran /\ c.kind = "panics" =>
                    r.kind = "Err" /\ r.e[1] = "SpawnBlockingTaskError"

\* One closure returned and one panicked, and both futures resolved
C25_Witness ==
    \E i, j \in BlockingCalls :
        /\ blocking[i].phase = "resolved" /\ blocking[i].ran
        /\ blocking[i].closure[1].kind = "returns"
        /\ blocking[i].out[1].kind = "Ok"
        /\ blocking[j].phase = "resolved" /\ blocking[j].ran
        /\ blocking[j].closure[1].kind = "panics"
        /\ blocking[j].out[1].kind = "Err"

----------------------------------------------------------------------------
(* Builders: properties *)

\* C26: RelayBuilder::new(url) yields a builder holding the given url with an in-memory
\* database, no runtime, no transport, no signer, no admit policy, read+write
\* capabilities and default options.
C26_Step ==
    builder = <<>> /\ builder' # <<>> =>
        LET b == builder'[2] IN
        /\ b.url = builder'[1]
        /\ b.database = "MemoryDatabase::default()"
        /\ b.runtime = <<>>
        /\ b.websocket_transport = <<>>
        /\ b.signer = <<>>
        /\ b.admit_policy = <<>>
        /\ b.capabilities.read /\ b.capabilities.write
        /\ b.opts = RelayOptionsDefault
        /\ DOMAIN b = {"url", "runtime", "websocket_transport", "signer", "database",
                       "admit_policy", "capabilities", "opts"}

C26_NewDefaults == [][C26_Step]_vars

\* A builder was made for the onion relay
C26_Witness ==
    /\ builder # <<>>
    /\ builder[1] = "ws://oxtr.onion"
    /\ builder[2].url = "ws://oxtr.onion"

\* C27: EventStreamRequest::new sets the timeout to 60 seconds and the policy to exit on
\* EOSE; new, timeout() and policy() only build the request value: the target object,
\* its subscriptions and what it sent stay as they were.
C27_Step ==
    /\ streamRequest = <<>> /\ streamRequest' # <<>> =>
        /\ streamRequest'[2].timeout = [secs |-> 60, nanos |-> 0]
        /\ streamRequest'[2].policy = "ExitOnEOSE"
        /\ streamRequest'[2].target = EventStreamTargetFrom(streamRequest'[1])
    /\ streamRequest' # streamRequest =>
        /\ obj' = obj
        /\ builder' = builder
        /\ UNCHANGED NotBuilder
    /\ streamRequest # <<>> /\ streamRequest' # streamRequest =>
        /\ streamRequest'[1] = streamRequest[1]
        /\ streamRequest'[2].obj = streamRequest[2].obj
        /\ streamRequest'[2].target = streamRequest[2].target
        /\ \/ streamRequest'[2].timeout = streamRequest[2].timeout
           \/ streamRequest'[2].policy = streamRequest[2].policy

C27_RequestBuilding == [][C27_Step]_vars

\* A streamRequest on an object with subscriptions got another timeout and another policy
C27_Witness ==
    /\ streamRequest # <<>>
    /\ streamRequest[2].timeout = [secs |-> 0, nanos |-> 1]
    /\ streamRequest[2].policy = "Never"
    /\ obj.subscriptions = {"sub1", "sub2"}
    /\ obj.sent = <<"REQ">>

\* The setters of EventStreamRequest, by name
StreamRequestSetters == {"timeout", "policy"}

StreamRequestArgs(f) == IF f = "timeout" THEN StreamTimeouts ELSE ReqExitPolicies

StreamRequestSet(b, f, v) ==
    IF f = "timeout" THEN EventStreamRequestTimeout(b, v) ELSE EventStreamRequestPolicy(b, v)

\* What a setter stores for the value it is given
Stored(f, v) ==
    IF f \in {"runtime", "websocket_transport", "signer", "admit_policy", "monitor"}
    THEN Some(v) ELSE v

\* The builder under construction, with its setters
BuilderKinds == {"RelayBuilder", "EventStreamRequest", "NostrWalletConnectBuilder"}

Built(k) ==
    CASE k = "RelayBuilder" -> builder
      [] k = "EventStreamRequest" -> streamRequest
      [] k = "NostrWalletConnectBuilder" -> nwc

SettersOf(k) ==
    CASE k = "RelayBuilder" -> RelayBuilderSetters
      [] k = "EventStreamRequest" -> StreamRequestSetters
      [] k = "NostrWalletConnectBuilder" -> NwcBuilderSetters

ArgsOf(k, f) ==
    CASE k = "RelayBuilder" -> RelayBuilderArgs(f)
      [] k = "EventStreamRequest" -> StreamRequestArgs(f)
      [] k = "NostrWalletConnectBuilder" -> NwcBuilderArgs(f)

SetOf(k, b, f, v) ==
    CASE k = "RelayBuilder" -> RelayBuilderSet(b, f, v)
      [] k = "EventStreamRequest" -> StreamRequestSet(b, f, v)
      [] k = "NostrWalletConnectBuilder" -> NwcBuilderSet(b, f, v)

\* A setter call changes nothing but the field of its name
C40_Step ==
    \A k \in BuilderKinds :
        (Built(k) # <<>> /\ Built(k)' # Built(k)) =>
            /\ setterCall' = <<k, setterCall'[2]>>
            /\ setterCall'[2] \in SettersOf(k)
            /\ Built(k)'[1] = Built(k)[1]
            /\ DOMAIN Built(k)'[2] = DOMAIN Built(k)[2]
            /\ \A g \in DOMAIN Built(k)[2] \ {setterCall'[2]} :
                 Built(k)'[2][g] = Built(k)[2][g]
            /\ \A j \in BuilderKinds \ {k} : Built(j)' = Built(j)
            /\ obj' = obj

\* On the builder reached: a setter stores its argument, two setters commute, and of
\* two calls of one setter the later one decides
C40_State ==
    \A k \in BuilderKinds :
        Built(k) # <<>> =>
            \A f \in SettersOf(k) : \A x \in ArgsOf(k, f) :
                LET b == Built(k)[2]
                    bx == SetOf(k, b, f, x)
                IN  /\ bx[f] = Stored(f, x)
                    /\ \A g \in DOMAIN b \ {f} : bx[g] = b[g]
                    /\ \A y \in ArgsOf(k, f) : SetOf(k, bx, f, y) = SetOf(k, b, f, y)
                    /\ \A g \in SettersOf(k) \ {f} : \A y \in ArgsOf(k, g) :
                         SetOf(k, bx, g, y) = SetOf(k, SetOf(k, b, g, y), f, x)

\* C40: each builder setter replaces only its own field and leaves every other field
\* unchanged, so the built configuration does not depend on the order of setter
\* calls and a repeated setter keeps the last value.
C40_SettersFrame == []C40_State /\ [][C40_Step]_vars

\* A RelayBuilder whose runtime was set twice and whose signer, database and options
\* were set as well
C40_Witness ==
    /\ builder # <<>>
    /\ setterCall = <<"RelayBuilder", "runtime">>
    /\ builder[2].runtime = Some("SmolRuntime")
    /\ builder[2].signer = Some("Keys")
    /\ builder[2].database = "NostrLMDB"
    /\ builder[2].opts # RelayOptionsDefault
    /\ builder[2].admit_policy = None

----------------------------------------------------------------------------
(* Flatbuffer encode and decode: properties *)

\* C31: FlatBufferEventTags::iter yields, in stored order, one tag for every entry that
\* has data, an entry without data being skipped without ending the iteration, so the
\* tags seen through iter() and through the conversion to EventBorrow are the tags
\* that EventBorrow::decode reads from the same buffer.
C31_IterSeesDecodedTags ==
    (fbDec # <<>> /\ fbDec[1].fb.ok /\ fbDec[1].borrow.ok) =>
        /\ fbDec[1].iter[1] = EntriesWithData(fbBuf[2].tags[1])
        /\ fbDec[1].iter[1] = fbDec[1].borrow.value[1].tags
        /\ fbDec[1].conv[1].tags = fbDec[1].borrow.value[1].tags

\* The scalar fields of a decoded event
Scalars(v) == <<v.id, v.pubkey, v.created_at, v.kind, v.content, v.sig>>

\* C37: encoding an Event and decoding the buffer returns an event equal to the
\* original in every field, and FlatBufferEvent::decode and EventBorrow::decode of the
\* same buffer expose the same id, pubkey, created_at, kind, content and signature.
C37_EncodeDecodeRoundTrip ==
    fbDec # <<>> =>
        /\ fbBuf[1] = "encode" =>
            /\ fbDec[1].event.ok
            /\ fbDec[1].event.value[1] = fbEvent[1]
            /\ fbDec[1].borrow.ok /\ fbDec[1].fb.ok
        /\ (fbDec[1].borrow.ok /\ fbDec[1].fb.ok) =>
            Scalars(fbDec[1].fb.value[1]) = Scalars(fbDec[1].borrow.value[1])

\* An event with two tags went through encode and decode
C37_Witness ==
    /\ fbDec # <<>>
    /\ fbBuf[1] = "encode"
    /\ Len(fbEvent[1].tags) = 2
    /\ fbEvent[1].kind = 65535
    /\ fbDec[1].event.ok
    /\ fbDec[1].event.value[1].tags = fbEvent[1].tags

\* The decoders of a buffer
Decoders == {"event", "borrow", "fb"}

\* The three decoders applied to a table
DecodeAll(t) ==
    [d \in Decoders |->
        CASE d = "event" -> EventDecode(t)
          [] d = "borrow" -> EventBorrowDecode(t)
          [] OTHER -> FlatBufferEventDecode(t)]

----------------------------------------------------------------------------
(* The two Timeout futures: properties *)

\* The step polls the future of implementation i
PollsIt(i) == tmPolls' = tmPolls + 1 /\ tm[i].result = "Pending"

\* At this poll the sleep of implementation i, if polled, would be Ready
SleepReady(i) ==
    IF tm[i].deadline # <<>> THEN tmNow >= tm[i].deadline[1]
    ELSE tmNow >= SleepDeadline(IF tm[i].created = <<>> THEN tmNow ELSE tm[i].created[1],
                                tmNow, tmDuration)

\* C32: when the wrapped future and the sleep are both ready at the same poll, Timeout
\* resolves to Ok(value): the wrapped future is polled first on every poll and the
\* sleep only in polls where the wrapped future returned Pending.
C32_Step ==
    \A i \in Impls :
        PollsIt(i) =>
            /\ tm'[i].fPolls = tm[i].fPolls + 1
            /\ tm'[i].sleepPolls = tm[i].sleepPolls + (IF tmF.ready THEN 0 ELSE 1)
            /\ (tmF.ready /\ SleepReady(i)) =>
                (tm'[i].result = "Ok" /\ tm'[i].value = tmF.value)

C32_FutureFirst == [][C32_Step]_vars

\* Both futures resolved to Ok at a poll made when their sleep was over
C32_Witness ==
    \A i \in Impls :
        /\ tm[i].result = "Ok"
        /\ tm[i].deadline # <<>>
        /\ tm[i].at[2] >= tm[i].deadline[1]
        /\ tm[i].sleepPolls >= 1

\* What an awaiting task can observe of a future
Observed(r) == <<r.result, r.value, r.at>>

\* C33: the two timeout implementations are observationally equivalent: for the same
\* wrapped future and duration they resolve at the same poll to the same result.
C33_SameOutcome ==
    Observed(tm["timer.rs"]) = Observed(tm["time.rs"])

\* C33, amended: they are equivalent when the sleep of the runtime counts from its
\* first poll, or when the first poll comes at the time of the call.
C33_SameOutcomeLazySleep ==
    (tmSleep = "poll" \/ tm["time.rs"].created \in {<<>>, <<0>>}) =>
        Observed(tm["timer.rs"]) = Observed(tm["time.rs"])

\* Both timed out at the same later poll, the first poll having come after the call
C33_Witness ==
    /\ tmSleep = "poll"
    /\ tm["time.rs"].created # <<>>
    /\ tm["time.rs"].created[1] > 0
    /\ tm["time.rs"].result = "Err"
    /\ tm["timer.rs"].result = "Err"
    /\ tm["timer.rs"].at[1] >= 2

\* C34, safety: Pending is returned only while both the wrapped future and the sleep
\* are pending, and a resolved future polls neither again
C34_Step ==
    \A i \in Impls :
        /\ PollsIt(i) => (tm'[i].result = "Pending" <=> (~tmF.ready /\ ~SleepReady(i)))
        /\ tm[i].result # "Pending" => tm'[i] = tm[i]

\* C34: a timeout(d, f) future that keeps being polled when woken eventually resolves
\* whenever sleep(d) eventually completes, even if f never completes; it returns
\* Pending only while both are pending, and after resolving polls neither again.
C34_EventuallyResolves ==
    /\ [][C34_Step]_vars
    /\ \A i \in Impls : <>(tm[i].result # "Pending")

\* A timeout whose wrapped future never completed resolved to Err
C34_Witness ==
    /\ ~tmF.ready
    /\ tmDuration > 0
    /\ \A i \in Impls : tm[i].result = "Err" /\ tm[i].fPolls >= 2

----------------------------------------------------------------------------
(* ReceiverStream: properties *)

\* C36: ReceiverStream yields exactly the values sent into its channel, each once and
\* in send order, and returns None only after every sender has been dropped and all
\* buffered values have been yielded.
C36_YieldsSentInOrder ==
    /\ rsSent = rsGot \o rsBuf
    /\ rsEnded => (rsSenders = 0 /\ rsBuf = <<>> /\ rsGot = rsSent)

\* The stream ended after it yielded several values, two of them different
C36_Witness ==
    /\ rsEnded
    /\ Len(rsGot) >= 2
    /\ rsGot[1] # rsGot[2]

----------------------------------------------------------------------------
(* Utf8Bytes: properties *)

\* C21: hashing a Utf8Bytes writes to the hasher exactly what hashing the
\* &str borrowed from it writes (the bytes, then FF), so both hash alike
\* with every hasher.
C21_HashConsistency ==
    (ubRead # <<>> /\ ubRead[1].how = "hash" /\ ubRead[1].defined) =>
        /\ ubRead[1].value = ubRead[1].borrowed
        /\ ubRead[1].value = ub[2] \o <<255>>

\* A string of a 4-byte and a 2-byte char was hashed both ways
C21_Witness ==
    /\ ubRead # <<>> /\ ubRead[1].how = "hash" /\ ubRead[1].defined
    /\ ubCtor = "from_static"
    /\ ubArg = <<128512, 233>>
    /\ Len(ubRead[1].borrowed) = 7

\* a Unicode scalar value
IsChar(c) == c \in 0..1114111 /\ c \notin 55296..57343

\* C22: a value built by from_static, From<String>, From<&str>, From<&String>
\* or a TryFrom holds valid UTF-8 (the encoding of a sequence of chars); a
\* TryFrom over bytes that are not valid UTF-8 returns an error and no value;
\* only from_bytes_unchecked yields a value whatever the bytes.
C22_SafeConstructorsValidate ==
    ub # <<>> =>
        /\ ubCtor \in StrCtors => ub[1] = "Ok"
        /\ (ub[1] = "Ok" /\ ubCtor # "from_bytes_unchecked") =>
             /\ Utf8ValidFrom(ub[2], 1)
             /\ EncodeUtf8(CharsFrom(ub[2], 1)) = ub[2]
             /\ \A i \in 1..Len(CharsFrom(ub[2], 1)) : IsChar(CharsFrom(ub[2], 1)[i])
        /\ ubCtor \in TryCtors =>
             IF Utf8ValidFrom(ubArg, 1) THEN ub = <<"Ok", ubArg>> ELSE ub = <<"Err", <<>> >>
        /\ ubCtor = "from_bytes_unchecked" => ub = <<"Ok", ubArg>>

\* The encoding of a surrogate was refused
C22_Witness ==
    /\ ubCtor = "TryFrom<Vec<u8>>"
    /\ ubArg = <<237, 160, 128>>
    /\ ub = <<"Err", <<>> >>

\* C23: a String turned into a Utf8Bytes and read back by as_str or Display
\* gives the chars of the String, and turned into Bytes gives its bytes.
C23_StringRoundTrip ==
    (ubCtor \in StrCtors /\ ubRead # <<>>) =>
        /\ ubRead[1].defined
        /\ ubRead[1].how \in {"as_str", "Display"} => ubRead[1].value = ubArg
        /\ ubRead[1].how = "Bytes::from" =>
             /\ ubRead[1].value = EncodeUtf8(ubArg)
             /\ CharsFrom(ubRead[1].value, 1) = ubArg

\* A String of a 3-byte and a 1-byte char came back from as_str
C23_Witness ==
    /\ ubCtor = "From<String>"
    /\ ubArg = <<8364, 65>>
    /\ ubRead # <<>> /\ ubRead[1].how = "as_str"
    /\ ub[2] = <<226, 130, 172, 65>>

----------------------------------------------------------------------------
(* WebSocket adapter: properties *)

\* w is the message t of the backend: same variant, same payload, same close frame
SameMessage(t, w) ==
    /\ w.ty = "transport"
    /\ w.variant = t.variant
    /\ w.data = t.data
    /\ (w.frame = <<>>) <=> (t.frame = <<>>)
    /\ t.frame # <<>> =>
         /\ w.frame[1].code = U16FromCloseCode(t.frame[1].code)
         /\ w.frame[1].reason = t.frame[1].reason

\* C19: poll_next yields one item for each item of the underlying stream, in
\* the same order, a message as the same variant with the same payload and a
\* backend error as a TransportError, and it ends only when the underlying
\* stream has ended; nothing is dropped, duplicated or reordered.
C19_InboundOrderPreserved ==
    /\ Len(yielded) <= Len(wsSource)
    /\ underlying = SubSeq(wsSource, Len(yielded) + 1, Len(wsSource))
    /\ \A i \in 1..Len(yielded) :
         IF wsSource[i][1] = "Ok"
         THEN yielded[i][1] = "Ok" /\ SameMessage(wsSource[i][2], yielded[i][2])
         ELSE /\ yielded[i][1] = "Err"
              /\ yielded[i][2] = [kind |-> "Backend", source |-> wsSource[i][2]]
    /\ wsEnded => (underlying = <<>> /\ Len(yielded) = Len(wsSource))

\* A ping, an error and a close frame came through in that order, then the end
C19_Witness ==
    /\ wsEnded
    /\ Len(yielded) = 3
    /\ yielded[1][1] = "Ok" /\ yielded[1][2].variant = "Ping"
    /\ yielded[2][1] = "Err"
    /\ yielded[3][1] = "Ok" /\ yielded[3][2].variant = "Close" /\ yielded[3][2].frame # <<>>

\* C20: a WebSocketMessage converted to the tungstenite message and back equals
\* the original, for Text, Binary, Ping, Pong and Close with or without a close
\* frame (code and reason kept).
C20_RoundTrip ==
    /\ backend # <<>> =>
         /\ backend[1].ty = "tungstenite"
         /\ backend[1].variant = original.variant
    /\ restored # <<>> => restored[1] = original

\* A close frame with a code tungstenite has no name for went there and back
C20_Witness ==
    /\ restored # <<>>
    /\ original.variant = "Close"
    /\ original.frame # <<>>
    /\ original.frame[1].code = 1004
    /\ original.frame[1].reason = <<104, 105>>
    /\ backend[1].frame[1].code = <<"Bad", 1004>>

====
